---- MODULE Spec2Model ----
(***************************************************************************)
(* Model of the reconciliation engine of coolify-deploy                    *)
(* (src/src/reconciler.ts): parseEnvFile, envVarsToCoolifyFormat and the   *)
(* Reconciler class.  One reconcile() invocation is a state machine whose  *)
(* steps are the remote calls it awaits; the remote side (CoolifyClient)   *)
(* is an explicit store that answers each call or makes it throw.          *)
(***************************************************************************)
EXTENDS Integers, Sequences, FiniteSets, TLC

(***************************************************************************)
(* Bounds of the model.                                                    *)
(***************************************************************************)
\* largest number of resources in the manifest
MaxResources == 2
\* largest number of remote applications of the target environment that
\* no manifest resource names
MaxOrphans == 1
\* largest number of remote calls that throw (or waits that reject) in a run
MaxFaults == 2

(***************************************************************************)
(* Values.                                                                 *)
(***************************************************************************)
\* JavaScript's undefined / null, and an absent optional field
NONE == "<none>"

\* the environment the manifest names, as findEnvironmentByName returns it
TargetEnvironment == [id |-> 1, uuid |-> "env-uuid", name |-> "production"]
\* the numeric id of some other environment of the platform
OtherEnvironmentId == 2

ResourceName(i) == "svc-" \o ToString(i)
OrphanName(j) == "old-" \o ToString(j)
\* the secret every resource of the manifest names as its envSecretName
SecretName == "APP_ENV"

(***************************************************************************)
(* parseEnvFile (reconciler.ts 47-81).  A string is a sequence of          *)
(* one-character strings.                                                  *)
(***************************************************************************)
Letters == {"A", "B", "C", "k", "_", "p", "r", "o", "t"}
Digits == {"1", "2"}
\* what String.prototype.trim removes
WhiteSpace == {" ", "\t", "\r", "\n"}
\* what the regular expression's . does not match
LineTerminators == {"\n", "\r"}

StartsWith(s, c) == Len(s) > 0 /\ s[1] = c
EndsWith(s, c) == Len(s) > 0 /\ s[Len(s)] = c

\* s.slice(1, -1)
SliceInner(s) == IF Len(s) < 2 THEN <<>> ELSE SubSeq(s, 2, Len(s) - 1)

RECURSIVE TrimStart(_)
TrimStart(s) ==
  IF s # <<>> /\ Head(s) \in WhiteSpace THEN TrimStart(Tail(s)) ELSE s

RECURSIVE TrimEnd(_)
TrimEnd(s) ==
  IF s # <<>> /\ s[Len(s)] \in WhiteSpace
  THEN TrimEnd(SubSeq(s, 1, Len(s) - 1))
  ELSE s

\* line.trim()
Trim(s) == TrimEnd(TrimStart(s))

\* content.split(/\r?\n/): the lines of content, cur being the line under way
RECURSIVE SplitFrom(_, _)
SplitFrom(s, cur) ==
  IF s = <<>> THEN <<cur>>
  ELSE IF Head(s) = "\n"
       THEN <<cur>> \o SplitFrom(Tail(s), <<>>)
       ELSE IF Head(s) = "\r" /\ Len(s) > 1 /\ s[2] = "\n"
            THEN <<cur>> \o SplitFrom(Tail(Tail(s)), <<>>)
            ELSE SplitFrom(Tail(s), Append(cur, Head(s)))

SplitLines(content) == SplitFrom(content, <<>>)

\* position of the first "=" of s, 0 when there is none
RECURSIVE FirstEquals(_, _)
FirstEquals(s, i) ==
  IF i > Len(s) THEN 0
  ELSE IF s[i] = "=" THEN i ELSE FirstEquals(s, i + 1)

\* a variant of MatchLine that splits at the last = of the line
MatchLineLastEquals(trimmed) ==
  LET at == {i \in 1..Len(trimmed) : trimmed[i] = "="}
      e == IF at = {} THEN 0 ELSE CHOOSE i \in at : \A j \in at : j <= i
      key == SubSeq(trimmed, 1, e - 1)
      value == SubSeq(trimmed, e + 1, Len(trimmed))
  IN IF /\ e > 1
        /\ key[1] \in Letters
        /\ \A i \in 1..Len(key) : key[i] \in Letters \cup Digits
        /\ \A i \in 1..Len(value) : value[i] \notin LineTerminators
     THEN <<key, value>>
     ELSE <<>>

\* a variant of MatchLine whose value starts one character late
MatchLineValueLate(trimmed) ==
  LET e == FirstEquals(trimmed, 1)
      key == SubSeq(trimmed, 1, e - 1)
      value == SubSeq(trimmed, e + 2, Len(trimmed))
  IN IF /\ e > 1
        /\ key[1] \in Letters
        /\ \A i \in 1..Len(key) : key[i] \in Letters \cup Digits
        /\ \A i \in 1..Len(value) : value[i] \notin LineTerminators
     THEN <<key, value>>
     ELSE <<>>

\* trimmed.match(/^([A-Za-z_][A-Za-z0-9_]*)=(.*)$/): <<key, value>>, or <<>>
\* when the line does not match
MatchLine(trimmed) ==
  LET e == FirstEquals(trimmed, 1)
      key == SubSeq(trimmed, 1, e - 1)
      value == SubSeq(trimmed, e + 1, Len(trimmed))
  IN IF /\ e > 1
        /\ key[1] \in Letters
        /\ \A i \in 1..Len(key) : key[i] \in Letters \cup Digits
        /\ \A i \in 1..Len(value) : value[i] \notin LineTerminators
     THEN <<key, value>>
     ELSE <<>>

\* the key whose assignment on a plain object runs the __proto__ setter of
\* Object.prototype; the setter ignores a value that is a string
ProtoKey == <<"_", "_", "p", "r", "o", "t", "o", "_", "_">>

\* result[key] = value on an insertion-ordered mapping, kept as a sequence
\* of [key, value] with distinct keys; result is a plain object ({}), so the
\* assignment of ProtoKey creates no property
SetKey(result, key, value) ==
  IF key = ProtoKey THEN result
  ELSE IF \E i \in 1..Len(result) : result[i].key = key
  THEN [i \in 1..Len(result) |->
          IF result[i].key = key THEN [key |-> key, value |-> value]
          ELSE result[i]]
  ELSE Append(result, [key |-> key, value |-> value])

\* a variant of ParseLine without the branch for mismatched quotes
ParseLineKeepsMismatched(result, line) ==
  LET trimmed == Trim(line)
      match == MatchLine(trimmed)
  IN IF trimmed = <<>> \/ StartsWith(trimmed, "#") THEN result
     ELSE IF match = <<>> THEN result
     ELSE LET key == match[1]
              value == match[2]
          IN IF \/ StartsWith(value, "\"") /\ EndsWith(value, "\"")
                \/ StartsWith(value, "'") /\ EndsWith(value, "'")
             THEN SetKey(result, key, SliceInner(value))
             ELSE SetKey(result, key, value)

\* the body of the loop of parseEnvFile for one line
ParseLine(result, line) ==
  LET trimmed == Trim(line)
      match == MatchLine(trimmed)
  IN IF trimmed = <<>> \/ StartsWith(trimmed, "#") THEN result
     ELSE IF match = <<>> THEN result
     ELSE LET key == match[1]
              value == match[2]
          IN IF \/ StartsWith(value, "\"") /\ EndsWith(value, "\"")
                \/ StartsWith(value, "'") /\ EndsWith(value, "'")
             THEN SetKey(result, key, SliceInner(value))
             ELSE IF \/ StartsWith(value, "\"") /\ ~EndsWith(value, "\"")
                     \/ StartsWith(value, "'") /\ ~EndsWith(value, "'")
                  THEN result
                  ELSE SetKey(result, key, value)

RECURSIVE ParseLines(_, _)
ParseLines(lines, result) ==
  IF lines = <<>> THEN result
  ELSE ParseLines(Tail(lines), ParseLine(result, Head(lines)))

parseEnvFile(content) == ParseLines(SplitLines(content), <<>>)

\* a variant of envVarsToCoolifyFormat that takes any line terminator for a
\* newline
envVarsToCoolifyFormatAnyTerminator(envVars) ==
  [i \in 1..Len(envVars) |->
     [key |-> envVars[i].key,
      value |-> envVars[i].value,
      is_preview |-> FALSE,
      is_literal |-> TRUE,
      is_multiline |-> \E j \in 1..Len(envVars[i].value) :
                          envVars[i].value[j] \in LineTerminators,
      is_shown_once |-> FALSE]]

\* envVarsToCoolifyFormat (reconciler.ts 86-95)
envVarsToCoolifyFormat(envVars) ==
  [i \in 1..Len(envVars) |->
     [key |-> envVars[i].key,
      value |-> envVars[i].value,
      is_preview |-> FALSE,
      is_literal |-> TRUE,
      is_multiline |-> \E j \in 1..Len(envVars[i].value) :
                          envVars[i].value[j] = "\n",
      is_shown_once |-> FALSE]]

(***************************************************************************)
(* The inputs of a run and the remote platform.                            *)
(***************************************************************************)
VARIABLES
  manifest,       \* options.manifest: [resources, serverId, environmentName]
  options,        \* the other ReconcilerOptions: [serverId, envSecrets]
  environments,   \* remote: the environments of the manifest's project
  applications,   \* remote: all applications, in listing order
  envVarStore,    \* remote: application uuid -> its variables, in listing order
  pc,             \* the await reconcile() is suspended at
  idx,            \* index of the manifest resource the loop is at
  envVars,        \* reconcile: envVars of the current resource
  appUuid,        \* reconcileResource: existingApp.uuid or newApp.uuid
  existing,       \* reconcileResource: whether existingApp was found
  varsToDelete,   \* reconcileEnvironmentVariables: entries still to delete
  allApps,        \* pruneResources: what listApplications returned
  appsToDelete,   \* pruneResources: applications still to delete
  prunedResources,\* pruneResources: its results so far
  deployments,    \* reconcile: the (name, uuid) pairs waited on
  settled,        \* the state of each waitForDeployment promise
  results,        \* reconcile: results
  totalCreated, totalUpdated, totalFailed, totalPruned,
  ret,            \* the ReconcileResult returned, once pc = "returned"
  calls,          \* every remote call issued so far, in order
  faults,         \* number of calls that threw or rejected so far
  previous,       \* what an earlier reconcile() of the same Reconciler left
  input,          \* the argument of a direct call of an exported function
  output          \* what that call returned

vars == <<manifest, options, environments, applications, envVarStore, pc, idx,
          envVars, appUuid, existing, varsToDelete, allApps, appsToDelete,
          prunedResources, deployments, settled, results, totalCreated,
          totalUpdated, totalFailed, totalPruned, ret, calls, faults,
          previous, input, output>>

remoteVars == <<environments, applications, envVarStore>>
inputVars == <<manifest, options>>
counterVars == <<totalCreated, totalUpdated, totalFailed, totalPruned>>
resourceVars == <<envVars, appUuid, existing, varsToDelete>>
pruneVars == <<allApps, appsToDelete, prunedResources>>
waitVars == <<deployments, settled>>
\* what lies outside one reconcile() invocation
outerVars == <<previous, input, output>>

\* the secret file contents the runs are given
Contents ==
  { <<>>,
    <<"A", "=", "1", "\n", "B", "=", "'", "2", "'">> }

\* the variable keys an application may hold before the run
PriorKeys == { <<"A">>, <<"C">> }

RECURSIVE Join(_)
Join(s) == IF s = <<>> THEN "" ELSE Head(s) \o Join(Tail(s))

EnvVarEntry(app, key, value) ==
  [uuid |-> "var-" \o Join(key) \o "-" \o app, key |-> key, value |-> value]

\* the sequence of the elements of 1..n that are in S, ascending
RECURSIVE Ascending(_, _)
Ascending(n, S) ==
  IF n = 0 THEN <<>>
  ELSE IF n \in S THEN Append(Ascending(n - 1, S), n) ELSE Ascending(n - 1, S)

\* the elements of seq at the indexes in S, in order
Pick(seq, S) ==
  LET nth(k) == CHOOSE i \in S : Cardinality({j \in S : j <= i}) = k
  IN [k \in 1..Cardinality(S) |-> seq[nth(k)]]

Resource(i) == [name |-> ResourceName(i), envSecretName |-> SecretName]

ExistingApp(i) ==
  [uuid |-> "app-" \o ResourceName(i), name |-> ResourceName(i),
   environment_id |-> TargetEnvironment.id]
OrphanApp(j) ==
  [uuid |-> "app-" \o OrphanName(j), name |-> OrphanName(j),
   environment_id |-> TargetEnvironment.id]
\* applications of another environment: one named like a manifest resource,
\* one that no manifest names
ForeignApps ==
  << [uuid |-> "foreign-" \o ResourceName(1), name |-> ResourceName(1),
      environment_id |-> OtherEnvironmentId],
     [uuid |-> "foreign-" \o OrphanName(1), name |-> OrphanName(1),
      environment_id |-> OtherEnvironmentId] >>

\* the server ids the manifest and the run option give: neither, the
\* manifest alone, both (the option overrides), and an option that is the
\* empty string
ServerIds ==
  { [manifest |-> NONE, option |-> NONE],
    [manifest |-> "srv-manifest", option |-> NONE],
    [manifest |-> "srv-manifest", option |-> "srv-option"],
    [manifest |-> NONE, option |-> ""],
    [manifest |-> "srv-manifest", option |-> ""] }

\* no reconcile() has run before this one
NoResult == [success |-> FALSE, resources |-> <<>>, totalCreated |-> 0,
             totalUpdated |-> 0, totalFailed |-> 0, totalPruned |-> 0]
NoRun == [runs |-> 0, totalCreated |-> 0, totalPruned |-> 0,
          applications |-> <<>>, envVarStore |-> <<>>]
\* no exported function is called directly
NoInput == [function |-> "none", value |-> <<>>, lines |-> <<>>,
            rewritten |-> FALSE, mapping |-> <<>>]
NoOutput == [returned |-> FALSE, value |-> <<>>]

Init ==
  /\ \E n \in 0..MaxResources, ids \in ServerIds :
       manifest = [resources |-> [i \in 1..n |-> Resource(i)],
                   serverId |-> ids.manifest,
                   environmentName |-> TargetEnvironment.name]
  /\ \E given \in SUBSET {SecretName}, ids \in ServerIds :
       /\ ids.manifest = manifest.serverId
       /\ options \in [serverId : {ids.option},
                       envSecrets : [given -> Contents]]
  /\ environments \in {<<>>, <<TargetEnvironment>>}
  /\ \E present \in SUBSET (1..Len(manifest.resources)), o \in 0..MaxOrphans :
       LET mine == Ascending(Len(manifest.resources), present)
       IN applications =
            ForeignApps \o [k \in 1..Len(mine) |-> ExistingApp(mine[k])]
                        \o [j \in 1..o |-> OrphanApp(j)]
  /\ \E prior \in SUBSET PriorKeys :
       LET all == <<<<"A">>, <<"C">>>>
           keys == Pick(all, {i \in 1..Len(all) : all[i] \in prior})
           named == {ResourceName(i) : i \in 1..Len(manifest.resources)}
       IN envVarStore =
            [u \in {applications[i].uuid : i \in 1..Len(applications)} |->
               IF \E i \in 1..Len(applications) :
                    /\ applications[i].uuid = u
                    /\ applications[i].environment_id = TargetEnvironment.id
                    /\ applications[i].name \in named
               THEN [k \in 1..Len(keys) |-> EnvVarEntry(u, keys[k], <<"0">>)]
               ELSE <<>>]
  /\ pc = "findEnvironmentByName"
  /\ idx = 0
  /\ envVars = <<>>
  /\ appUuid = NONE
  /\ existing = FALSE
  /\ varsToDelete = <<>>
  /\ allApps = <<>>
  /\ appsToDelete = <<>>
  /\ prunedResources = <<>>
  /\ deployments = <<>>
  /\ settled = <<>>
  /\ results = <<>>
  /\ totalCreated = 0
  /\ totalUpdated = 0
  /\ totalFailed = 0
  /\ totalPruned = 0
  /\ ret = NoResult
  /\ calls = <<>>
  /\ faults = 0
  /\ previous = NoRun
  /\ input = NoInput
  /\ output = NoOutput

(***************************************************************************)
(* reconcile (reconciler.ts 114-271).                                      *)
(***************************************************************************)
\* a remote call that returned (for waitForDeployment: was issued)
Call(op, arg) ==
  [op |-> op, arg |-> arg, threw |-> FALSE, server_uuid |-> NONE,
   returned |-> NONE]
\* a remote call that threw
Thrown(op, arg) ==
  [op |-> op, arg |-> arg, threw |-> TRUE, server_uuid |-> NONE,
   returned |-> NONE]

\* the message of the Error a failing remote call throws
ErrorOf(op) == op \o " failed"

\* a remote call may throw while the run's fault budget lasts
CanFault == faults < MaxFaults

Resources == manifest.resources
ResourceCount == Len(manifest.resources)

\* a ReconcileResourceResult; NONE stands for a field that is not set
Entry(name, action, uuid, deploymentUuid, error) ==
  [name |-> name, action |-> action, uuid |-> uuid,
   deploymentUuid |-> deploymentUuid, error |-> error]

\* a variant of FailedEntry that keeps the uuid of the application the
\* resource's calls had reached
FailedEntryKeepsUuid(name, error) == Entry(name, "failed", appUuid, NONE, error)

FailedEntry(name, error) == Entry(name, "failed", NONE, NONE, error)

\* a variant of EnvironmentAbsentResult that lists no resource
EnvironmentAbsentResultEmpty ==
  [success |-> FALSE,
   resources |-> <<>>,
   totalCreated |-> 0,
   totalUpdated |-> 0,
   totalFailed |-> ResourceCount,
   totalPruned |-> 0]

\* a variant of ServerIdMissingResult with one failed entry per resource
ServerIdMissingResultPerResource ==
  [success |-> FALSE,
   resources |-> [i \in 1..ResourceCount |->
                    FailedEntry(Resources[i].name, "Server ID is required")],
   totalCreated |-> 0,
   totalUpdated |-> 0,
   totalFailed |-> ResourceCount,
   totalPruned |-> 0]

\* reconciler.ts 143-154
EnvironmentAbsentResult ==
  [success |-> FALSE,
   resources |-> [i \in 1..ResourceCount |->
                    FailedEntry(Resources[i].name,
                                "Target environment does not exist")],
   totalCreated |-> 0,
   totalUpdated |-> 0,
   totalFailed |-> ResourceCount,
   totalPruned |-> 0]

\* reconciler.ts 166-173
ServerIdMissingResult ==
  [success |-> FALSE,
   resources |-> <<>>,
   totalCreated |-> 0,
   totalUpdated |-> 0,
   totalFailed |-> ResourceCount,
   totalPruned |-> 0]

\* reconciler.ts 164: !serverId
Falsy(s) == s \in {NONE, ""}

\* a server id taken from the manifest even when the option gives one
EffectiveServerIdManifestFirst ==
  IF manifest.serverId # NONE THEN manifest.serverId ELSE options.serverId

\* reconciler.ts 163: this.options.serverId ?? manifest.serverId
EffectiveServerId ==
  IF options.serverId # NONE THEN options.serverId ELSE manifest.serverId

\* reconciler.ts 180-194: the wire entries of resource i
DesiredEnvVars(i) ==
  LET secretName == Resources[i].envSecretName
      \* envSecrets[secretName] is neither undefined nor the empty string
      truthy == /\ secretName \in DOMAIN options.envSecrets
                /\ options.envSecrets[secretName] # <<>>
  IN IF truthy
     THEN envVarsToCoolifyFormat(parseEnvFile(options.envSecrets[secretName]))
     ELSE <<>>

\* reconciler.ts 260-270: the record reconcile returns
Return(res, created, updated, failed, pruned) ==
  /\ ret' = [success |-> (failed = 0),
             resources |-> res,
             totalCreated |-> created,
             totalUpdated |-> updated,
             totalFailed |-> failed,
             totalPruned |-> pruned]
  /\ pc' = "returned"

\* reconciler.ts 177: the loop moves to resource i, or ends and pruning starts
EnterResource(i) ==
  IF i <= ResourceCount
  THEN /\ idx' = i
       /\ envVars' = DesiredEnvVars(i)
       /\ pc' = "findApplicationByName"
  ELSE /\ idx' = i
       /\ envVars' = <<>>
       /\ pc' = "listApplications"

\* reconciler.ts 133: findEnvironmentByName throws
FindEnvironmentThrows ==
  /\ pc = "findEnvironmentByName"
  /\ CanFault
  /\ faults' = faults + 1
  /\ calls' = Append(calls, Thrown("findEnvironmentByName", manifest.environmentName))
  /\ pc' = "thrown"
  /\ UNCHANGED <<inputVars, outerVars, remoteVars, idx, resourceVars, pruneVars, waitVars,
                 results, counterVars, ret>>

\* reconciler.ts 133-155: the environment is absent
EnvironmentAbsent ==
  /\ pc = "findEnvironmentByName"
  /\ environments = <<>>
  /\ calls' = Append(calls, Call("findEnvironmentByName", manifest.environmentName))
  /\ ret' = EnvironmentAbsentResult
  /\ pc' = "returned"
  /\ UNCHANGED <<inputVars, outerVars, remoteVars, idx, resourceVars, pruneVars, waitVars,
                 results, counterVars, faults>>

\* reconciler.ts 162-174: no server id
ServerIdMissing ==
  /\ pc = "findEnvironmentByName"
  /\ environments # <<>>
  /\ Falsy(EffectiveServerId)
  /\ calls' = Append(calls, Call("findEnvironmentByName", manifest.environmentName))
  /\ ret' = ServerIdMissingResult
  /\ pc' = "returned"
  /\ UNCHANGED <<inputVars, outerVars, remoteVars, idx, resourceVars, pruneVars, waitVars,
                 results, counterVars, faults>>

\* reconciler.ts 133-177: both preconditions pass, the loop starts
EnvironmentResolved ==
  /\ pc = "findEnvironmentByName"
  /\ environments # <<>>
  /\ ~Falsy(EffectiveServerId)
  /\ calls' = Append(calls, Call("findEnvironmentByName", manifest.environmentName))
  /\ EnterResource(1)
  /\ UNCHANGED <<inputVars, outerVars, remoteVars, appUuid, existing, varsToDelete,
                 pruneVars, waitVars, results, counterVars, ret, faults>>

(***************************************************************************)
(* The loop over the manifest's resources (reconciler.ts 177-216) and      *)
(* reconcileResource (reconciler.ts 339-418).                              *)
(***************************************************************************)
CurrentName == Resources[idx].name

\* a variant of FinishResource in which a failed resource ends the loop
FinishResourceAbortOnFailure(result) ==
  /\ results' = Append(results, result)
  /\ totalCreated' = totalCreated + (IF result.action = "created" THEN 1 ELSE 0)
  /\ totalUpdated' = totalUpdated + (IF result.action = "updated" THEN 1 ELSE 0)
  /\ totalFailed' = totalFailed + (IF result.action = "failed" THEN 1 ELSE 0)
  /\ IF result.action = "failed"
     THEN EnterResource(ResourceCount + 1)
     ELSE EnterResource(idx + 1)

\* reconciler.ts 197-205 and 209-214: the current resource's result is pushed
\* and counted, and the loop goes on
FinishResource(result) ==
  /\ results' = Append(results, result)
  /\ totalCreated' = totalCreated + (IF result.action = "created" THEN 1 ELSE 0)
  /\ totalUpdated' = totalUpdated + (IF result.action = "updated" THEN 1 ELSE 0)
  /\ totalFailed' = totalFailed + (IF result.action = "failed" THEN 1 ELSE 0)
  /\ EnterResource(idx + 1)

\* reconciler.ts 206-215 and 409-417: a call of the current resource throws
FailResourceWith(call) ==
  /\ CanFault
  /\ faults' = faults + 1
  /\ calls' = Append(calls, call)
  /\ FinishResource(FailedEntry(CurrentName, ErrorOf(call.op)))
  /\ UNCHANGED <<inputVars, outerVars, remoteVars, appUuid, existing, varsToDelete,
                 pruneVars, waitVars, totalPruned, ret>>

FailResource(op, arg) == FailResourceWith(Thrown(op, arg))

\* the remote application findApplicationByName(name, environmentId) finds
FindApp(name, environmentId) ==
  Pick(applications,
       {i \in 1..Len(applications) :
          /\ applications[i].name = name
          /\ applications[i].environment_id = environmentId})

\* a lookup that throws and is tried again
FindApplicationThrowsRetried ==
  /\ pc = "findApplicationByName"
  /\ CanFault
  /\ faults' = faults + 1
  /\ calls' = Append(calls, Thrown("findApplicationByName", CurrentName))
  /\ UNCHANGED <<inputVars, outerVars, remoteVars, pc, idx, resourceVars, pruneVars,
                 waitVars, results, counterVars, ret>>

\* reconciler.ts 352: the lookup throws
FindApplicationThrows ==
  /\ pc = "findApplicationByName"
  /\ FailResource("findApplicationByName", CurrentName)

\* a lookup whose hit leaves the application alone
FindApplicationFoundSkipped ==
  /\ pc = "findApplicationByName"
  /\ FindApp(CurrentName, TargetEnvironment.id) # <<>>
  /\ calls' = Append(calls, Call("findApplicationByName", CurrentName))
  /\ appUuid' = FindApp(CurrentName, TargetEnvironment.id)[1].uuid
  /\ existing' = TRUE
  /\ FinishResource(Entry(CurrentName, "unchanged", appUuid', NONE, NONE))
  /\ UNCHANGED <<inputVars, outerVars, remoteVars, varsToDelete, pruneVars,
                 waitVars, totalPruned, ret, faults>>

\* a lookup whose hit is taken for a miss
FindApplicationFoundIgnored ==
  /\ pc = "findApplicationByName"
  /\ FindApp(CurrentName, TargetEnvironment.id) # <<>>
  /\ calls' = Append(calls, Call("findApplicationByName", CurrentName))
  /\ appUuid' = NONE
  /\ existing' = FALSE
  /\ pc' = "createDockerImageApplication"
  /\ UNCHANGED <<inputVars, outerVars, remoteVars, idx, envVars, varsToDelete, pruneVars,
                 waitVars, results, counterVars, ret, faults>>

\* reconciler.ts 352-357: the application exists
FindApplicationFound ==
  /\ pc = "findApplicationByName"
  /\ FindApp(CurrentName, TargetEnvironment.id) # <<>>
  /\ calls' = Append(calls, Call("findApplicationByName", CurrentName))
  /\ appUuid' = FindApp(CurrentName, TargetEnvironment.id)[1].uuid
  /\ existing' = TRUE
  /\ pc' = "updateApplication"
  /\ UNCHANGED <<inputVars, outerVars, remoteVars, idx, envVars, varsToDelete, pruneVars,
                 waitVars, results, counterVars, ret, faults>>

\* a lookup issued together with the lookup of the next resource
FindApplicationAbsentTwoAtOnce ==
  /\ pc = "findApplicationByName"
  /\ FindApp(CurrentName, TargetEnvironment.id) = <<>>
  /\ calls' = calls \o <<Call("findApplicationByName", CurrentName)>>
                    \o [k \in 1..(IF idx < ResourceCount THEN 1 ELSE 0) |->
                          Call("findApplicationByName", Resources[idx + 1].name)]
  /\ appUuid' = NONE
  /\ existing' = FALSE
  /\ pc' = "createDockerImageApplication"
  /\ UNCHANGED <<inputVars, outerVars, remoteVars, idx, envVars, varsToDelete, pruneVars,
                 waitVars, results, counterVars, ret, faults>>

\* reconciler.ts 352-378: the application does not exist
FindApplicationAbsent ==
  /\ pc = "findApplicationByName"
  /\ FindApp(CurrentName, TargetEnvironment.id) = <<>>
  /\ calls' = Append(calls, Call("findApplicationByName", CurrentName))
  /\ appUuid' = NONE
  /\ existing' = FALSE
  /\ pc' = "createDockerImageApplication"
  /\ UNCHANGED <<inputVars, outerVars, remoteVars, idx, envVars, varsToDelete, pruneVars,
                 waitVars, results, counterVars, ret, faults>>

\* a variant of UpdateApplication that leaves the variables alone
UpdateApplicationSkipsVariables ==
  /\ pc = "updateApplication"
  /\ calls' = Append(calls, Call("updateApplication", appUuid))
  /\ pc' = "deployApplication"
  /\ UNCHANGED <<inputVars, outerVars, remoteVars, idx, resourceVars, pruneVars,
                 waitVars, results, counterVars, ret, faults>>

\* reconciler.ts 358-359
UpdateApplication ==
  /\ pc = "updateApplication"
  /\ calls' = Append(calls, Call("updateApplication", appUuid))
  /\ pc' = "listEnvironmentVariables"
  /\ UNCHANGED <<inputVars, outerVars, remoteVars, idx, resourceVars, pruneVars, waitVars,
                 results, counterVars, ret, faults>>

UpdateApplicationThrows ==
  /\ pc = "updateApplication"
  /\ FailResource("updateApplication", appUuid)

\* what follows the deletions of reconcileEnvironmentVariables
\* (reconciler.ts 295-298, then 364-365)
AfterDeletions ==
  IF Len(envVars) > 0 THEN "updateEnvironmentVariables" ELSE "deployApplication"

\* a variant of VarsToDelete that keeps no current entry
VarsToDeleteAll(currentEnvVars, desiredEnvVars) == currentEnvVars

\* a variant of VarsToDelete with the key test inverted
VarsToDeleteInverted(currentEnvVars, desiredEnvVars) ==
  LET desiredKeys == {desiredEnvVars[i].key : i \in 1..Len(desiredEnvVars)}
  IN Pick(currentEnvVars,
          {i \in 1..Len(currentEnvVars) :
             currentEnvVars[i].key \in desiredKeys})

\* a variant of VarsToDelete that deletes nothing when no variable is desired
VarsToDeleteUnlessNoneDesired(currentEnvVars, desiredEnvVars) ==
  LET desiredKeys == {desiredEnvVars[i].key : i \in 1..Len(desiredEnvVars)}
  IN IF desiredEnvVars = <<>> THEN <<>>
     ELSE Pick(currentEnvVars,
               {i \in 1..Len(currentEnvVars) :
                  currentEnvVars[i].key \notin desiredKeys})

\* reconciler.ts 282-286
VarsToDelete(currentEnvVars, desiredEnvVars) ==
  LET desiredKeys == {desiredEnvVars[i].key : i \in 1..Len(desiredEnvVars)}
  IN Pick(currentEnvVars,
          {i \in 1..Len(currentEnvVars) :
             currentEnvVars[i].key \notin desiredKeys})

\* reconciler.ts 279-293
ListEnvironmentVariables ==
  /\ pc = "listEnvironmentVariables"
  /\ calls' = Append(calls, [Call("listEnvironmentVariables", appUuid)
                               EXCEPT !.returned = envVarStore[appUuid]])
  /\ varsToDelete' = VarsToDelete(envVarStore[appUuid], envVars)
  /\ pc' = IF Len(varsToDelete') > 0 THEN "deleteEnvironmentVariable"
           ELSE AfterDeletions
  /\ UNCHANGED <<inputVars, outerVars, remoteVars, idx, envVars, appUuid, existing,
                 pruneVars, waitVars, results, counterVars, ret, faults>>

ListEnvironmentVariablesThrows ==
  /\ pc = "listEnvironmentVariables"
  /\ FailResource("listEnvironmentVariables", appUuid)

\* reconciler.ts 290-292: one pass of the deletion loop
DeleteEnvironmentVariable ==
  /\ pc = "deleteEnvironmentVariable"
  /\ calls' = Append(calls, Call("deleteEnvironmentVariable",
                                 Head(varsToDelete).uuid))
  /\ envVarStore' =
       [envVarStore EXCEPT ![appUuid] =
          Pick(@, {i \in 1..Len(@) : @[i].uuid # Head(varsToDelete).uuid})]
  /\ varsToDelete' = Tail(varsToDelete)
  /\ pc' = IF Len(varsToDelete') > 0 THEN "deleteEnvironmentVariable"
           ELSE AfterDeletions
  /\ UNCHANGED <<inputVars, outerVars, environments, applications, idx, envVars, appUuid,
                 existing, pruneVars, waitVars, results, counterVars, ret,
                 faults>>

DeleteEnvironmentVariableThrows ==
  /\ pc = "deleteEnvironmentVariable"
  /\ FailResource("deleteEnvironmentVariable", Head(varsToDelete).uuid)

\* the remote batch update: every desired key is created or overwritten
Upsert(current, app, desiredEnvVars) ==
  LET desired(k) == CHOOSE i \in 1..Len(desiredEnvVars) :
                      desiredEnvVars[i].key = k
      has(k) == \E i \in 1..Len(desiredEnvVars) : desiredEnvVars[i].key = k
      kept == [i \in 1..Len(current) |->
                 IF has(current[i].key)
                 THEN [current[i] EXCEPT
                         !.value = desiredEnvVars[desired(current[i].key)].value]
                 ELSE current[i]]
      heldKeys == {current[i].key : i \in 1..Len(current)}
      fresh == Pick(desiredEnvVars,
                    {i \in 1..Len(desiredEnvVars) :
                       desiredEnvVars[i].key \notin heldKeys})
  IN kept \o [i \in 1..Len(fresh) |->
                EnvVarEntry(app, fresh[i].key, fresh[i].value)]

\* reconciler.ts 297 and 393
UpdateEnvironmentVariables ==
  /\ pc = "updateEnvironmentVariables"
  /\ calls' = Append(calls, Call("updateEnvironmentVariables", appUuid))
  /\ envVarStore' =
       [envVarStore EXCEPT ![appUuid] = Upsert(@, appUuid, envVars)]
  /\ pc' = "deployApplication"
  /\ UNCHANGED <<inputVars, outerVars, environments, applications, idx, resourceVars,
                 pruneVars, waitVars, results, counterVars, ret, faults>>

\* a batch update whose error is swallowed: the deployment is triggered
\* all the same
UpdateEnvironmentVariablesThrowsSwallowed ==
  /\ pc = "updateEnvironmentVariables"
  /\ CanFault
  /\ faults' = faults + 1
  /\ calls' = Append(calls, Thrown("updateEnvironmentVariables", appUuid))
  /\ pc' = "deployApplication"
  /\ UNCHANGED <<inputVars, outerVars, remoteVars, idx, resourceVars, pruneVars,
                 waitVars, results, counterVars, ret>>

UpdateEnvironmentVariablesThrows ==
  /\ pc = "updateEnvironmentVariables"
  /\ FailResource("updateEnvironmentVariables", appUuid)

\* the uuid the platform gives the application created for a resource
NewAppUuid(name) == "new-" \o name

\* a variant of CreateDockerImageApplication that pushes the variables even
\* when there are none
CreateDockerImageApplicationAlwaysPushes ==
  /\ pc = "createDockerImageApplication"
  /\ calls' = Append(calls, [Call("createDockerImageApplication", CurrentName)
                               EXCEPT !.server_uuid = EffectiveServerId,
                                      !.returned = NewAppUuid(CurrentName)])
  /\ applications' = Append(applications,
                            [uuid |-> NewAppUuid(CurrentName),
                             name |-> CurrentName,
                             environment_id |-> TargetEnvironment.id])
  /\ envVarStore' = envVarStore @@ (NewAppUuid(CurrentName) :> <<>>)
  /\ appUuid' = NewAppUuid(CurrentName)
  /\ pc' = "updateEnvironmentVariables"
  /\ UNCHANGED <<inputVars, outerVars, environments, idx, envVars, existing,
                 varsToDelete, pruneVars, waitVars, results, counterVars, ret,
                 faults>>

\* reconciler.ts 380-394
CreateDockerImageApplication ==
  /\ pc = "createDockerImageApplication"
  /\ calls' = Append(calls, [Call("createDockerImageApplication", CurrentName)
                               EXCEPT !.server_uuid = EffectiveServerId,
                                      !.returned = NewAppUuid(CurrentName)])
  /\ applications' = Append(applications,
                            [uuid |-> NewAppUuid(CurrentName),
                             name |-> CurrentName,
                             environment_id |-> TargetEnvironment.id])
  /\ envVarStore' = envVarStore @@ (NewAppUuid(CurrentName) :> <<>>)
  /\ appUuid' = NewAppUuid(CurrentName)
  /\ pc' = IF Len(envVars) > 0 THEN "updateEnvironmentVariables"
           ELSE "deployApplication"
  /\ UNCHANGED <<inputVars, outerVars, environments, idx, envVars, existing, varsToDelete,
                 pruneVars, waitVars, results, counterVars, ret, faults>>

CreateDockerImageApplicationThrows ==
  /\ pc = "createDockerImageApplication"
  /\ FailResourceWith([Thrown("createDockerImageApplication", CurrentName)
                        EXCEPT !.server_uuid = EffectiveServerId])

\* the deployment identifiers a trigger may return for the current resource:
\* none, a new one, or one an earlier trigger of the run returned
DeploymentIds ==
  {NONE, "dep-" \o ToString(idx)}
    \cup {results[i].deploymentUuid : i \in 1..Len(results)}

\* a variant of DeployApplication that waits for the deployment it triggered
\* before the loop goes on
DeployApplicationThenWait ==
  /\ pc = "deployApplication"
  /\ \E deploymentUuid \in DeploymentIds :
       /\ calls' = IF deploymentUuid = NONE
                   THEN Append(calls, Call("deployApplication", appUuid))
                   ELSE calls \o <<[Call("deployApplication", appUuid)
                                      EXCEPT !.returned = deploymentUuid],
                                   Call("waitForDeployment", deploymentUuid)>>
       /\ FinishResource(Entry(CurrentName,
                               IF existing THEN "updated" ELSE "created",
                               appUuid, deploymentUuid, NONE))
  /\ UNCHANGED <<inputVars, outerVars, remoteVars, appUuid, existing, varsToDelete,
                 pruneVars, waitVars, totalPruned, ret, faults>>

\* reconciler.ts 365-375 and 397-407
DeployApplication ==
  /\ pc = "deployApplication"
  /\ \E deploymentUuid \in DeploymentIds :
       /\ calls' = Append(calls, [Call("deployApplication", appUuid)
                                    EXCEPT !.returned = deploymentUuid])
       /\ FinishResource(Entry(CurrentName,
                               IF existing THEN "updated" ELSE "created",
                               appUuid, deploymentUuid, NONE))
  /\ UNCHANGED <<inputVars, outerVars, remoteVars, appUuid, existing, varsToDelete,
                 pruneVars, waitVars, totalPruned, ret, faults>>

DeployApplicationThrows ==
  /\ pc = "deployApplication"
  /\ FailResource("deployApplication", appUuid)

(***************************************************************************)
(* pruneResources (reconciler.ts 304-334) and the deployment waits         *)
(* (reconciler.ts 218-258).                                                *)
(***************************************************************************)
\* a variant of AppsToDelete without the environment filter
AppsToDeleteAnyEnvironment(apps, environmentId, manifestResources) ==
  LET manifestAppNames ==
        {manifestResources[i].name : i \in 1..Len(manifestResources)}
  IN Pick(apps, {i \in 1..Len(apps) : apps[i].name \notin manifestAppNames})

\* a variant of AppsToDelete with the name test the wrong way round: the
\* applications the manifest names are the ones deleted
AppsToDeleteNamed(apps, environmentId, manifestResources) ==
  LET manifestAppNames ==
        {manifestResources[i].name : i \in 1..Len(manifestResources)}
  IN Pick(apps,
          {i \in 1..Len(apps) :
             /\ apps[i].environment_id = environmentId
             /\ apps[i].name \in manifestAppNames})

\* reconciler.ts 314-318
AppsToDelete(apps, environmentId, manifestResources) ==
  LET manifestAppNames ==
        {manifestResources[i].name : i \in 1..Len(manifestResources)}
  IN Pick(apps,
          {i \in 1..Len(apps) :
             /\ apps[i].environment_id = environmentId
             /\ apps[i].name \notin manifestAppNames})

\* a variant of Deployments that takes every created or updated entry
DeploymentsOfSucceeded(res) ==
  LET done == Pick(res, {i \in 1..Len(res) :
                           res[i].action \in {"created", "updated"}})
  IN [k \in 1..Len(done) |->
        [name |-> done[k].name, uuid |-> done[k].deploymentUuid]]

\* reconciler.ts 224
Deployments(res) ==
  LET withId == Pick(res, {i \in 1..Len(res) : ~Falsy(res[i].deploymentUuid)})
  IN [k \in 1..Len(withId) |->
        [name |-> withId[k].name, uuid |-> withId[k].deploymentUuid]]

WaitCalls(ds) == [k \in 1..Len(ds) |-> Call("waitForDeployment", ds[k].uuid)]

\* a variant of AfterPrune that puts the pruned entries first
AfterPrunePrepends(pruned, issued) ==
  LET res == pruned \o results
      ds == Deployments(res)
  IN /\ results' = res
     /\ totalPruned' = Len(pruned)
     /\ deployments' = ds
     /\ settled' = [k \in 1..Len(ds) |-> "pending"]
     /\ calls' = issued \o WaitCalls(ds)
     /\ IF Len(ds) > 0
        THEN pc' = "waitForDeployment" /\ UNCHANGED ret
        ELSE Return(res, totalCreated, totalUpdated, totalFailed, Len(pruned))

\* reconciler.ts 219-228: pruneResources has returned pruned; the waits are
\* issued, or reconcile returns when there is nothing to wait for
AfterPrune(pruned, issued) ==
  LET res == results \o pruned
      ds == Deployments(res)
  IN /\ results' = res
     /\ totalPruned' = Len(pruned)
     /\ deployments' = ds
     /\ settled' = [k \in 1..Len(ds) |-> "pending"]
     /\ calls' = issued \o WaitCalls(ds)
     /\ IF Len(ds) > 0
        THEN pc' = "waitForDeployment" /\ UNCHANGED ret
        ELSE Return(res, totalCreated, totalUpdated, totalFailed, Len(pruned))

\* reconciler.ts 311: listApplications throws; nothing catches it
ListApplicationsThrows ==
  /\ pc = "listApplications"
  /\ CanFault
  /\ faults' = faults + 1
  /\ calls' = Append(calls, Thrown("listApplications", NONE))
  /\ pc' = "thrown"
  /\ UNCHANGED <<inputVars, outerVars, remoteVars, idx, resourceVars, pruneVars, waitVars,
                 results, counterVars, ret>>

\* reconciler.ts 311-320
ListApplications ==
  /\ pc = "listApplications"
  /\ LET toDelete == AppsToDelete(applications, TargetEnvironment.id, Resources)
     IN /\ allApps' = applications
        /\ appsToDelete' = toDelete
        /\ prunedResources' = <<>>
        /\ IF Len(toDelete) > 0
           THEN /\ calls' = Append(calls, Call("listApplications", NONE))
                /\ pc' = "deleteApplication"
                /\ UNCHANGED <<waitVars, results, totalPruned, ret>>
           ELSE AfterPrune(<<>>, Append(calls, Call("listApplications", NONE)))
  /\ UNCHANGED <<inputVars, outerVars, remoteVars, idx, resourceVars, totalCreated,
                 totalUpdated, totalFailed, faults>>

\* reconciler.ts 324: deleteApplication throws; nothing catches it
DeleteApplicationThrows ==
  /\ pc = "deleteApplication"
  /\ CanFault
  /\ faults' = faults + 1
  /\ calls' = Append(calls, Thrown("deleteApplication", Head(appsToDelete).uuid))
  /\ pc' = "thrown"
  /\ UNCHANGED <<inputVars, outerVars, remoteVars, idx, resourceVars, pruneVars, waitVars,
                 results, counterVars, ret>>

\* reconciler.ts 322-330: one pass of the deletion loop
DeleteApplication ==
  /\ pc = "deleteApplication"
  /\ LET app == Head(appsToDelete)
         pruned == Append(prunedResources,
                          Entry(app.name, "pruned", app.uuid, NONE, NONE))
         issued == Append(calls, Call("deleteApplication", app.uuid))
     IN /\ applications' =
             Pick(applications,
                  {i \in 1..Len(applications) : applications[i].uuid # app.uuid})
        /\ envVarStore' = [u \in DOMAIN envVarStore \ {app.uuid} |-> envVarStore[u]]
        /\ allApps' = allApps
        /\ appsToDelete' = Tail(appsToDelete)
        /\ prunedResources' = pruned
        /\ IF Len(appsToDelete) > 1
           THEN /\ calls' = issued
                /\ pc' = "deleteApplication"
                /\ UNCHANGED <<waitVars, results, totalPruned, ret>>
           ELSE AfterPrune(pruned, issued)
  /\ UNCHANGED <<inputVars, outerVars, environments, idx, resourceVars, totalCreated,
                 totalUpdated, totalFailed, faults>>

\* the message a rejected wait carries
WaitError(uuid) == "deployment " \o uuid \o " failed"

\* one waitForDeployment promise settles: it resolves
WaitResolves(k) ==
  /\ pc = "waitForDeployment"
  /\ settled[k] = "pending"
  /\ settled' = [settled EXCEPT ![k] = "fulfilled"]
  /\ UNCHANGED <<inputVars, outerVars, remoteVars, pc, idx, resourceVars, pruneVars,
                 deployments, results, counterVars, ret, calls, faults>>

\* one waitForDeployment promise settles: it rejects
WaitRejects(k) ==
  /\ pc = "waitForDeployment"
  /\ settled[k] = "pending"
  /\ CanFault
  /\ faults' = faults + 1
  /\ settled' = [settled EXCEPT ![k] = "rejected"]
  /\ UNCHANGED <<inputVars, outerVars, remoteVars, pc, idx, resourceVars, pruneVars,
                 deployments, results, counterVars, ret, calls>>

\* a variant of AllSettled with Promise.all's rule: the first rejection ends
\* the wait
AllSettledOrOneRejected ==
  \/ \A k \in 1..Len(settled) : settled[k] # "pending"
  \/ \E k \in 1..Len(settled) : settled[k] = "rejected"

\* reconciler.ts 228: Promise.allSettled resolves once no promise is pending
AllSettled == \A k \in 1..Len(settled) : settled[k] # "pending"

\* reconciler.ts 240: results.find((r) => r.deploymentUuid === uuid), as an
\* index of res, 0 when there is none
FindByDeployment(res, uuid) ==
  IF \E i \in 1..Len(res) : res[i].deploymentUuid = uuid
  THEN CHOOSE i \in 1..Len(res) :
         /\ res[i].deploymentUuid = uuid
         /\ \A j \in 1..(i - 1) : res[j].deploymentUuid # uuid
  ELSE 0

\* reconciler.ts 232-244: the forEach callback for deployment k
HandleDeploymentResult(res, k) ==
  LET deployment == deployments[k]
      found == FindByDeployment(res, deployment.uuid)
  IN IF settled[k] = "rejected" /\ found # 0
     THEN [res EXCEPT ![found].action = "failed",
                      ![found].error = WaitError(deployment.uuid)]
     ELSE res

\* reconciler.ts 231-251: forEach over deploymentResults 1..k
RECURSIVE HandleDeploymentResults(_, _)
HandleDeploymentResults(res, k) ==
  IF k = 0 THEN res
  ELSE HandleDeploymentResult(HandleDeploymentResults(res, k - 1), k)

\* reconciler.ts 230-234
DeploymentFailures == Cardinality({k \in 1..Len(settled) : settled[k] = "rejected"})

\* a variant of DeploymentsSettled that recounts created and updated from the
\* rewritten entries
DeploymentsSettledRecounts ==
  /\ pc = "waitForDeployment"
  /\ AllSettled
  /\ results' = HandleDeploymentResults(results, Len(deployments))
  /\ totalFailed' = totalFailed + DeploymentFailures
  /\ Return(results',
            Cardinality({i \in 1..Len(results') : results'[i].action = "created"}),
            Cardinality({i \in 1..Len(results') : results'[i].action = "updated"}),
            totalFailed', totalPruned)
  /\ UNCHANGED <<inputVars, outerVars, remoteVars, idx, resourceVars, pruneVars, waitVars,
                 totalCreated, totalUpdated, totalPruned, calls, faults>>

\* a variant of DeploymentsSettled with Promise.all's rule: the outcomes are
\* folded in as soon as one wait has rejected, whatever the others are doing
DeploymentsSettledOnFirstRejection ==
  /\ pc = "waitForDeployment"
  /\ AllSettledOrOneRejected
  /\ results' = HandleDeploymentResults(results, Len(deployments))
  /\ totalFailed' = totalFailed + DeploymentFailures
  /\ Return(results', totalCreated, totalUpdated, totalFailed', totalPruned)
  /\ UNCHANGED <<inputVars, outerVars, remoteVars, idx, resourceVars, pruneVars, waitVars,
                 totalCreated, totalUpdated, totalPruned, calls, faults>>

\* a variant of DeploymentsSettled that rewrites the entries of the rejected
\* waits and leaves totalFailed as the loop counted it
DeploymentsSettledKeepsTotalFailed ==
  /\ pc = "waitForDeployment"
  /\ AllSettled
  /\ results' = HandleDeploymentResults(results, Len(deployments))
  /\ Return(results', totalCreated, totalUpdated, totalFailed, totalPruned)
  /\ UNCHANGED <<inputVars, outerVars, remoteVars, idx, resourceVars, pruneVars, waitVars,
                 counterVars, calls, faults>>

\* reconciler.ts 228-270: every wait has settled; the outcomes are folded into
\* the results and reconcile returns
DeploymentsSettled ==
  /\ pc = "waitForDeployment"
  /\ AllSettled
  /\ results' = HandleDeploymentResults(results, Len(deployments))
  /\ totalFailed' = totalFailed + DeploymentFailures
  /\ Return(results', totalCreated, totalUpdated, totalFailed', totalPruned)
  /\ UNCHANGED <<inputVars, outerVars, remoteVars, idx, resourceVars, pruneVars, waitVars,
                 totalCreated, totalUpdated, totalPruned, calls, faults>>

(***************************************************************************)
(* A second reconcile() on the same Reconciler (reconciler.ts 114-120):    *)
(* the caller saw success = true and runs it again with the same manifest  *)
(* and options against the remote state the first run left.  Its locals    *)
(* start afresh; `previous` keeps what the first run counted and left.     *)
(***************************************************************************)
Rerun ==
  /\ pc = "returned"
  /\ ret.success
  /\ previous.runs = 0
  /\ previous' = [runs |-> 1, totalCreated |-> ret.totalCreated,
                  totalPruned |-> ret.totalPruned,
                  applications |-> applications, envVarStore |-> envVarStore]
  /\ pc' = "findEnvironmentByName"
  /\ idx' = 0
  /\ envVars' = <<>>
  /\ appUuid' = NONE
  /\ existing' = FALSE
  /\ varsToDelete' = <<>>
  /\ allApps' = <<>>
  /\ appsToDelete' = <<>>
  /\ prunedResources' = <<>>
  /\ deployments' = <<>>
  /\ settled' = <<>>
  /\ results' = <<>>
  /\ totalCreated' = 0
  /\ totalUpdated' = 0
  /\ totalFailed' = 0
  /\ totalPruned' = 0
  /\ ret' = NoResult
  /\ calls' = <<>>
  /\ faults' = 0
  /\ UNCHANGED <<inputVars, remoteVars, input, output>>

Next ==
  \/ FindEnvironmentThrows
  \/ EnvironmentAbsent
  \/ ServerIdMissing
  \/ EnvironmentResolved
  \/ FindApplicationThrows
  \/ FindApplicationFound
  \/ FindApplicationAbsent
  \/ UpdateApplication
  \/ UpdateApplicationThrows
  \/ ListEnvironmentVariables
  \/ ListEnvironmentVariablesThrows
  \/ DeleteEnvironmentVariable
  \/ DeleteEnvironmentVariableThrows
  \/ UpdateEnvironmentVariables
  \/ UpdateEnvironmentVariablesThrows
  \/ CreateDockerImageApplication
  \/ CreateDockerImageApplicationThrows
  \/ DeployApplication
  \/ DeployApplicationThrows
  \/ ListApplications
  \/ ListApplicationsThrows
  \/ DeleteApplication
  \/ DeleteApplicationThrows
  \/ \E k \in 1..Len(settled) : WaitResolves(k)
  \/ \E k \in 1..Len(settled) : WaitRejects(k)
  \/ DeploymentsSettled

Spec == Init /\ [][Next]_vars

\* reconcile() run once and, after success, once more
NextTwice == Next \/ Rerun
SpecTwice == Init /\ [][NextTwice]_vars

(***************************************************************************)
(* parseEnvFile and envVarsToCoolifyFormat called directly (reconciler.ts  *)
(* 47-95): both are exported.  No Reconciler is at work here.              *)
(***************************************************************************)
\* the largest number of lines of a content
MaxLines == 2

\* the lines a content is made of
Lines ==
  { <<>>,                                             \* blank
    <<" ", "\t">>,                                    \* only white space
    <<"#", "A", "=", "1">>,                           \* a comment
    <<" ", "#", "B">>,                                \* a comment, indented
    <<"A">>,                                          \* no =
    <<"=", "1">>,                                     \* no key
    <<"1", "A", "=", "1">>,                           \* key starts with a digit
    <<"A", " ", "=", "1">>,                           \* white space in the key
    <<"A", "=", "1", "\r", "2">>,                     \* a line terminator in the value
    <<"A", "=", "1">>,
    <<"A", "=", "2">>,
    <<"B", "=">>,                                     \* empty value
    <<"_", "k", "1", "=", "1", "=", "2">>,            \* = in the value
    <<" ", "B", "=", "1", " ">>,                      \* white space around
    <<"A", "=", " ", "1">>,                           \* value starts with a space
    <<"A", "=", "\"", "1", "\"">>,                    \* double quotes
    <<"B", "=", "'", "1", "'">>,                      \* single quotes
    <<"A", "=", "\"", "1", " ", "\"">>,               \* white space inside quotes
    <<"B", "=", "\"", "\"">>,                         \* nothing inside quotes
    <<"A", "=", "\"", "'", "1", "'", "\"">>,          \* two layers of quotes
    <<"A", "=", "\"", "1">>,                          \* opened, not closed
    <<"B", "=", "'", "1", "\"">>,                     \* opened and closed differently
    <<"A", "=", "1", "'">>,                           \* closed, not opened
    <<"A", "=", "\"">>,                               \* one double quote
    <<"B", "=", "'">>,                                \* one single quote
    ProtoKey \o <<"=", "1">> }

\* the line endings content.split(/\r?\n/) splits on
LineEndings == { <<"\n">>, <<"\r", "\n">> }

\* the lines joined by a line ending
RECURSIVE JoinLines(_, _)
JoinLines(lines, ending) ==
  IF lines = <<>> THEN <<>>
  ELSE IF Len(lines) = 1 THEN lines[1]
  ELSE lines[1] \o ending \o JoinLines(Tail(lines), ending)

\* the values of the entries of a mapping passed to envVarsToCoolifyFormat
Values ==
  { <<>>, <<"1">>, <<"1", "\n", "2">>, <<"\n">>, <<"\r">>, <<"1", " ">> }

\* the mappings passed to envVarsToCoolifyFormat: Record<string, string>
Mappings ==
  {<<>>}
  \cup {<<[key |-> k, value |-> v]>> : k \in {<<"A">>, <<"B">>}, v \in Values}
  \cup {<<[key |-> <<"A">>, value |-> v], [key |-> <<"B">>, value |-> w]>> :
          v \in Values, w \in Values}
  \cup {<<[key |-> <<"B">>, value |-> v], [key |-> <<"A">>, value |-> w]>> :
          v \in Values, w \in Values}

\* everything of the Reconciler, which a direct call leaves alone
reconcilerVars ==
  <<inputVars, remoteVars, pc, idx, resourceVars, pruneVars, waitVars,
    results, counterVars, ret, calls, faults, previous>>

\* no Reconciler has been constructed; one exported function is about to be
\* called with one argument
InitPure ==
  /\ manifest = [resources |-> <<>>, serverId |-> NONE,
                 environmentName |-> TargetEnvironment.name]
  /\ options = [serverId |-> NONE, envSecrets |-> <<>>]
  /\ environments = <<>>
  /\ applications = <<>>
  /\ envVarStore = <<>>
  /\ pc = "notCalled"
  /\ idx = 0
  /\ envVars = <<>>
  /\ appUuid = NONE
  /\ existing = FALSE
  /\ varsToDelete = <<>>
  /\ allApps = <<>>
  /\ appsToDelete = <<>>
  /\ prunedResources = <<>>
  /\ deployments = <<>>
  /\ settled = <<>>
  /\ results = <<>>
  /\ totalCreated = 0
  /\ totalUpdated = 0
  /\ totalFailed = 0
  /\ totalPruned = 0
  /\ ret = NoResult
  /\ calls = <<>>
  /\ faults = 0
  /\ previous = NoRun
  /\ output = NoOutput
  /\ \/ \E n \in 0..MaxLines :
          \E lines \in [1..n -> Lines], ending \in LineEndings :
            input = [function |-> "parseEnvFile",
                     value |-> JoinLines(lines, ending),
                     lines |-> lines,
                     rewritten |-> FALSE,
                     mapping |-> <<>>]
     \/ \E envVarsGiven \in Mappings :
          input = [function |-> "envVarsToCoolifyFormat",
                   value |-> envVarsGiven,
                   lines |-> <<>>,
                   rewritten |-> FALSE,
                   mapping |-> envVarsGiven]

\* reconciler.ts 47-81: parseEnvFile(content) returns
CallParseEnvFile ==
  /\ input.function = "parseEnvFile"
  /\ ~output.returned
  /\ output' = [returned |-> TRUE, value |-> parseEnvFile(input.value)]
  /\ UNCHANGED <<reconcilerVars, input>>

\* the lines KEY=value of a mapping, one per entry
LinesOf(mapping) ==
  [i \in 1..Len(mapping) |-> mapping[i].key \o <<"=">> \o mapping[i].value]

\* reconciler.ts 38-47: what parseEnvFile returned is written back as
\* KEY=value lines, to be parsed again
WriteBack ==
  /\ input.function = "parseEnvFile"
  /\ ~input.rewritten
  /\ output.returned
  /\ input' = [function |-> "parseEnvFile",
               value |-> JoinLines(LinesOf(output.value), <<"\n">>),
               lines |-> LinesOf(output.value),
               rewritten |-> TRUE,
               mapping |-> output.value]
  /\ output' = NoOutput
  /\ UNCHANGED reconcilerVars

\* reconciler.ts 86-95: envVarsToCoolifyFormat(envVars) returns
CallEnvVarsToCoolifyFormat ==
  /\ input.function = "envVarsToCoolifyFormat"
  /\ ~output.returned
  /\ output' = [returned |-> TRUE, value |-> envVarsToCoolifyFormat(input.value)]
  /\ UNCHANGED <<reconcilerVars, input>>

NextPure ==
  \/ CallParseEnvFile
  \/ WriteBack
  \/ CallEnvVarsToCoolifyFormat

SpecPure == InitPure /\ [][NextPure]_vars

(***************************************************************************)
(* Properties.                                                             *)
(***************************************************************************)
\* reconcile returned after both preconditions passed
NormalReturn == pc = "returned" /\ idx = ResourceCount + 1

Ops(S) == {p \in 1..Len(calls) : calls[p].op \in S}

ResourceOps ==
  {"findApplicationByName", "createDockerImageApplication",
   "updateApplication", "listEnvironmentVariables",
   "deleteEnvironmentVariable", "updateEnvironmentVariables",
   "deployApplication"}
PruneOps == {"listApplications", "deleteApplication"}
WaitOps == {"waitForDeployment"}

\* the phase of reconcile a remote call belongs to
PhaseOf ==
  [op \in {"findEnvironmentByName"} \cup ResourceOps \cup PruneOps \cup WaitOps |->
     IF op = "findEnvironmentByName" THEN 0
     ELSE IF op \in ResourceOps THEN 1
     ELSE IF op \in PruneOps THEN 2
     ELSE 3]

\* C1: in every result record reconcile returns, success is true if and only
\* if totalFailed equals 0.
C1_SuccessIffNoFailure ==
  pc = "returned" => (ret.success <=> (ret.totalFailed = 0))

\* C2: reconcile never throws: whatever remote calls resolve or throw, the
\* invocation ends by returning a result record.
C2_ReconcileNeverThrows == pc # "thrown"

\* C8: when the environment lookup returns absent, reconcile returns
\* success = false with exactly one failed entry per manifest resource carrying
\* the fixed message, totalFailed = resource count, the other counters 0, and
\* the environment lookup is the only remote call of the run.
C8_EnvironmentAbsent ==
  (pc = "returned" /\ environments = <<>>) =>
    /\ ret.success = FALSE
    /\ Len(ret.resources) = ResourceCount
    /\ \A i \in 1..ResourceCount :
         ret.resources[i] =
           [name |-> Resources[i].name, action |-> "failed", uuid |-> NONE,
            deploymentUuid |-> NONE,
            error |-> "Target environment does not exist"]
    /\ ret.totalFailed = ResourceCount
    /\ ret.totalCreated = 0 /\ ret.totalUpdated = 0 /\ ret.totalPruned = 0
    /\ Len(calls) = 1
    /\ calls[1].op = "findEnvironmentByName"

C8_Witness ==
  /\ pc = "returned"
  /\ environments = <<>>
  /\ ResourceCount >= 2
  /\ Len(applications) > Len(ForeignApps)

\* C9: when the environment exists and neither the run option nor the manifest
\* gives a server id, reconcile returns success = false, totalFailed = resource
\* count and an empty result list, and the environment lookup is the only
\* remote call of the run.
C9_ServerIdMissing ==
  (/\ pc = "returned"
   /\ environments # <<>>
   /\ options.serverId = NONE
   /\ manifest.serverId = NONE) =>
    /\ ret.success = FALSE
    /\ ret.totalFailed = ResourceCount
    /\ ret.resources = <<>>
    /\ Len(calls) = 1
    /\ calls[1].op = "findEnvironmentByName"

C9_Witness ==
  /\ pc = "returned"
  /\ environments # <<>>
  /\ options.serverId = NONE
  /\ manifest.serverId = NONE
  /\ ResourceCount >= 2
  /\ Len(applications) > Len(ForeignApps)

ManifestNames == {Resources[i].name : i \in 1..ResourceCount}

\* the application lookups of the run, in order
Lookups == Pick(calls, Ops({"findApplicationByName"}))

\* the resource whose sequence call p belongs to: the one looked up last
Owner(p) ==
  Cardinality({q \in Ops({"findApplicationByName"}) : q <= p})

\* the calls of the resources' sequences that threw, and the resources hit
ThrownInLoop == {p \in Ops(ResourceOps) : calls[p].threw}
FailedInLoop == {Owner(p) : p \in ThrownInLoop}

\* the loop over the resources is running
InLoop == pc \in ResourceOps

\* C3: when a call of one resource's sequence throws, that resource gets one
\* entry with action failed and the error's message, totalFailed rises by one,
\* and every later manifest resource is still looked up and reconciled: stated
\* while the loop runs, when it has just ended, and of the returned result.
C3_FailureIsolatedPerResource ==
  LET lookedAt == Ops({"findApplicationByName"})
      lookups == Pick(calls, lookedAt)
      owner(p) == Cardinality({q \in lookedAt : q <= p})
      thrown == ThrownInLoop
      failed == {owner(p) : p \in thrown}
      deployed == {owner(p) : p \in {q \in Ops({"deployApplication"}) :
                                       ~calls[q].threw}}
      looked(i) == i <= Len(lookups) /\ lookups[i].arg = Resources[i].name
      entry(p) == [name |-> Resources[owner(p)].name, action |-> "failed",
                   uuid |-> NONE, deploymentUuid |-> NONE,
                   error |-> ErrorOf(calls[p].op)]
  IN /\ (InLoop \/ pc = "listApplications") =>
          /\ \A p \in thrown :
               LET i == owner(p)
               IN /\ looked(i)
                  /\ \A q \in thrown : owner(q) = i => q = p
                  /\ Len(results) >= i
                  /\ results[i] = entry(p)
                  /\ i < ResourceCount =>
                       \/ looked(i + 1)
                       \/ pc = "findApplicationByName" /\ idx = i + 1
          /\ totalFailed = Cardinality(failed)
     /\ pc = "listApplications" =>
          /\ Len(lookups) = ResourceCount
          /\ Len(results) = ResourceCount
          /\ \A i \in 1..ResourceCount :
               /\ looked(i)
               /\ results[i].name = Resources[i].name
               /\ i \notin failed =>
                    /\ results[i].uuid # NONE
                    /\ i \in deployed
     /\ NormalReturn =>
          /\ Len(lookups) = ResourceCount
          /\ \A p \in thrown : ret.resources[owner(p)] = entry(p)
          /\ ret.totalFailed >= Cardinality(failed)

C3_Witness ==
  /\ NormalReturn
  /\ ResourceCount >= 2
  /\ 1 \in FailedInLoop
  /\ 2 \notin FailedInLoop
  /\ ret.resources[1].action = "failed"
  /\ ret.resources[2].action = "updated"
  /\ ret.totalFailed = 1

KeysOf(entries) == {entries[i].key : i \in 1..Len(entries)}

\* C4: after the environment-variable reconciliation of an existing
\* application has completed without a thrown error, the keys held remotely for
\* that application are exactly the desired keys, and they still are when
\* reconcile returns.
C4_RemoteKeysEqualDesired ==
  /\ (pc = "deployApplication" /\ existing) =>
       KeysOf(envVarStore[appUuid]) = KeysOf(envVars)
  /\ NormalReturn =>
       \A i \in 1..ResourceCount :
         ret.resources[i].uuid = ExistingApp(i).uuid =>
           KeysOf(envVarStore[ret.resources[i].uuid]) = KeysOf(DesiredEnvVars(i))

C4_Witness ==
  /\ pc = "deployApplication"
  /\ existing
  /\ KeysOf(envVars) = {<<"A">>, <<"B">>}
  /\ \E p \in 1..Len(calls) :
       /\ calls[p].op = "deleteEnvironmentVariable"
       /\ ~calls[p].threw
       /\ calls[p].arg = EnvVarEntry(appUuid, <<"C">>, <<>>).uuid
  /\ \E p \in 1..Len(calls) :
       /\ calls[p].op = "updateEnvironmentVariables"
       /\ calls[p].arg = appUuid

\* the remote applications pruneResources has to delete, from what
\* listApplications returned
Orphans ==
  {i \in 1..Len(allApps) :
     /\ allApps[i].environment_id = TargetEnvironment.id
     /\ allApps[i].name \notin ManifestNames}

\* C5: the pruning pass deletes exactly the listed applications of the target
\* environment that no manifest resource names: none of another environment,
\* none that the manifest names, and totalPruned is the number of delete
\* calls, each matched by one pruned entry with the application's name and uuid.
C5_PrunesExactlyOrphans ==
  LET deleted == Ops({"deleteApplication"})
      orphans == Orphans
  IN /\ pc \in {"deleteApplication", "waitForDeployment", "thrown"} =>
          /\ \A p \in deleted :
               \E i \in orphans : allApps[i].uuid = calls[p].arg
          /\ \A i \in 1..Len(ForeignApps) :
               \E j \in 1..Len(applications) : applications[j] = ForeignApps[i]
     /\ NormalReturn =>
          /\ \A p \in deleted :
               \E i \in orphans : allApps[i].uuid = calls[p].arg
          /\ \A i \in orphans :
               /\ \E p \in deleted : calls[p].arg = allApps[i].uuid
               /\ \A j \in 1..Len(applications) :
                    applications[j].uuid # allApps[i].uuid
          /\ \A i \in 1..Len(allApps) :
               i \notin orphans =>
                 \E j \in 1..Len(applications) : applications[j] = allApps[i]
          /\ ret.totalPruned = Cardinality(deleted)
          /\ LET deleteCalls == Pick(calls, deleted)
                 pruned == Pick(ret.resources,
                                {i \in 1..Len(ret.resources) :
                                   ret.resources[i].action = "pruned"})
             IN /\ Len(pruned) = Len(deleteCalls)
                /\ \A k \in 1..Len(pruned) :
                     /\ pruned[k].uuid = deleteCalls[k].arg
                     /\ \E i \in orphans :
                          /\ allApps[i].uuid = pruned[k].uuid
                          /\ allApps[i].name = pruned[k].name

C5_Witness ==
  /\ NormalReturn
  /\ ret.totalPruned >= 1
  /\ \E i \in 1..ResourceCount :
       /\ ret.resources[i].action = "failed"
       /\ \E j \in 1..Len(applications) : applications[j] = ExistingApp(i)

Rejected == {k \in 1..Len(settled) : settled[k] = "rejected"}

\* C6: for every deployment wait that rejects, the entry of the resource that
\* triggered that deployment ends with action failed and the rejection message,
\* its name, uuid and deployment identifier unchanged, and totalFailed rises by
\* one per rejected wait, whatever identifiers the trigger calls returned.
C6_RejectedWaitFailsItsResource ==
  NormalReturn =>
    /\ \A k \in Rejected :
         \E i \in 1..ResourceCount :
           /\ ret.resources[i].name = deployments[k].name
           /\ ret.resources[i].action = "failed"
           /\ ret.resources[i].error = WaitError(deployments[k].uuid)
           /\ ret.resources[i].deploymentUuid = deployments[k].uuid
           /\ ret.resources[i].uuid \in
                {ExistingApp(i).uuid, NewAppUuid(Resources[i].name)}
    /\ ret.totalFailed = Cardinality(FailedInLoop) + Cardinality(Rejected)
    /\ Cardinality({i \in 1..ResourceCount : ret.resources[i].action = "failed"})
         = Cardinality(FailedInLoop) + Cardinality(Rejected)

\* C7: all waits are issued before any of them settles, a rejection keeps no
\* other wait from settling, reconcile returns only after every issued wait has
\* settled, and the result counts the failures of all of them.
C7_WaitsSettleIndependently ==
  /\ pc = "waitForDeployment" =>
       /\ Len(settled) = Len(deployments)
       /\ Cardinality(Ops(WaitOps)) = Len(deployments)
       /\ \A k \in 1..Len(settled) :
            settled[k] = "pending" => ENABLED WaitResolves(k)
       /\ (\E k \in 1..Len(settled) : settled[k] = "pending") =>
            ~ENABLED DeploymentsSettled
  /\ NormalReturn =>
       /\ \A k \in 1..Len(settled) : settled[k] # "pending"
       /\ Cardinality(Ops(WaitOps)) =
            Cardinality({i \in 1..Len(ret.resources) :
                           ret.resources[i].deploymentUuid # NONE})
       /\ ret.totalFailed = Cardinality(FailedInLoop) + Cardinality(Rejected)
       /\ ret.success <=> (FailedInLoop = {} /\ Rejected = {})

C7_Witness ==
  /\ NormalReturn
  /\ Len(settled) >= 2
  /\ settled[1] = "rejected"
  /\ settled[2] = "fulfilled"

\* C10: the list-applications call and every delete-application call come
\* after the last call of the last resource's reconciliation, and every
\* deployment wait comes after the last pruning call: the calls of the log are
\* in phase order, pruning starts with every resource reconciled, and the
\* waits start with every orphan deleted.
C10_PhaseOrder ==
  /\ \A p \in 1..Len(calls) :
       IF p = 1 THEN PhaseOf[calls[p].op] = 0
       ELSE /\ PhaseOf[calls[p].op] >= 1
            /\ PhaseOf[calls[p - 1].op] <= PhaseOf[calls[p].op]
  /\ pc \in {"listApplications", "deleteApplication"} =>
       /\ LET lookups == Lookups
          IN /\ Len(lookups) = ResourceCount
             /\ \A i \in 1..ResourceCount :
                  lookups[i].arg = Resources[i].name
       /\ Len(results) = ResourceCount
       /\ Ops(WaitOps) = {}
  /\ pc = "waitForDeployment" =>
       /\ Ops({"listApplications"}) # {}
       /\ Cardinality(Ops({"deleteApplication"})) = Cardinality(Orphans)

C10_Witness ==
  /\ NormalReturn
  /\ Ops({"deployApplication"}) # {}
  /\ Ops({"deleteApplication"}) # {}
  /\ Ops(WaitOps) # {}
  /\ ResourceCount >= 2

\* the loop has just finished a resource: resource idx - 1
JustFinished == pc \in {"findApplicationByName", "listApplications"} /\ idx >= 2

\* the calls of the resource looked up last, from its lookup on
LastSequence ==
  LET lookedAt == Ops({"findApplicationByName"})
      start == CHOOSE p \in lookedAt : \A q \in lookedAt : q <= p
  IN SubSeq(calls, start, Len(calls))

\* C11: for a resource whose lookup returns absent and whose calls all
\* succeed, the calls are the lookup, one create, one batch update of the new
\* application if and only if the desired variables are non-empty, and one
\* deployment of the new application, with no listing or deletion of
\* variables; its entry is created with the uuid that create returned.
C11_CreateFlow ==
  (JustFinished /\ ~existing) =>
    LET seq == LastSequence
        name == Resources[idx - 1].name
        uuid == seq[2].returned
        push == DesiredEnvVars(idx - 1) # <<>>
    IN (\A k \in 1..Len(seq) : ~seq[k].threw) =>
         /\ seq[1].op = "findApplicationByName" /\ seq[1].arg = name
         /\ seq[2].op = "createDockerImageApplication" /\ seq[2].arg = name
         /\ uuid # NONE
         /\ FindApp(name, TargetEnvironment.id)[1].uuid = uuid
         /\ Len(seq) = IF push THEN 4 ELSE 3
         /\ push => /\ seq[3].op = "updateEnvironmentVariables"
                    /\ seq[3].arg = uuid
         /\ seq[Len(seq)].op = "deployApplication"
         /\ seq[Len(seq)].arg = uuid
         /\ results[idx - 1] =
              Entry(name, "created", uuid, seq[Len(seq)].returned, NONE)

C11_Witness ==
  /\ JustFinished
  /\ ~existing
  /\ results[idx - 1].action = "created"
  /\ DesiredEnvVars(idx - 1) # <<>>
  /\ Len(LastSequence) = 4

TargetNames(apps) ==
  {apps[i].name : i \in {j \in 1..Len(apps) :
                           apps[j].environment_id = TargetEnvironment.id}}

\* application uuid -> the set of its environment-variable keys
KeySets(store) == [u \in DOMAIN store |-> KeysOf(store[u])]

\* C13: in a second run made directly after a run that returned
\* success = true, no application is created and none is pruned (no create or
\* delete call is reached, totalCreated and totalPruned stay 0 and are
\* returned as 0), and the names of the target environment's applications and
\* every application's environment-variable key set are what the first run
\* left.
C13_SecondRunChangesNothing ==
  previous.runs = 1 =>
    /\ pc \notin {"createDockerImageApplication", "deleteApplication"}
    /\ totalCreated = 0
    /\ totalPruned = 0
    /\ pc = "returned" => ret.totalCreated = 0 /\ ret.totalPruned = 0
    /\ TargetNames(applications) = TargetNames(previous.applications)
    /\ KeySets(envVarStore) = KeySets(previous.envVarStore)

\* a second run has returned after a first run that created and pruned and
\* left variables behind
C13_Witness ==
  /\ previous.runs = 1
  /\ previous.totalCreated > 0
  /\ previous.totalPruned > 0
  /\ NormalReturn
  /\ ret.success
  /\ ret.totalUpdated = ResourceCount
  /\ \E u \in DOMAIN envVarStore : envVarStore[u] # <<>>

(***************************************************************************)
(* C14: the effective server id.                                           *)
(***************************************************************************)
\* C14: every create payload carries the run option's serverId when the
\* option is given and the manifest's serverId otherwise; it is never absent.
\* Stated of the call logged last: every call is the last one in the state
\* that follows it.
C14_CreateCarriesEffectiveServerId ==
  (calls # <<>> /\ calls[Len(calls)].op = "createDockerImageApplication") =>
    LET payload == calls[Len(calls)]
    IN /\ options.serverId # NONE => payload.server_uuid = options.serverId
       /\ options.serverId = NONE => payload.server_uuid = manifest.serverId
       /\ payload.server_uuid # NONE

\* a create was issued with the option's server id although the manifest
\* declares another
C14_Witness ==
  /\ calls # <<>>
  /\ calls[Len(calls)].op = "createDockerImageApplication"
  /\ ~calls[Len(calls)].threw
  /\ options.serverId = "srv-option"
  /\ manifest.serverId = "srv-manifest"
  /\ calls[Len(calls)].server_uuid = "srv-option"

(***************************************************************************)
(* C15: one call at a time, resources in manifest order.                   *)
(***************************************************************************)
\* the calls a step issues
Issued == SubSeq(calls', Len(calls) + 1, Len(calls'))

\* C15: a step that does not start the deployment wait issues at most one
\* remote call, and no waitForDeployment promise is pending outside the wait;
\* a call of the loop is issued for the resource the loop is at, when exactly
\* the resources before it have their result entry; the lookup of that
\* resource is issued when the lookups issued so far are those of the
\* resources before it, in manifest order, and every other call of the loop
\* when the latest lookup is that of the resource the loop is at.
C15_OneAtATimeInOrder ==
  [][ /\ Len(calls') >= Len(calls)
      /\ pc' # "waitForDeployment" =>
            /\ Len(calls') <= Len(calls) + 1
            /\ \A k \in 1..Len(settled') : settled'[k] # "pending"
      /\ \A k \in 1..Len(Issued) :
            Issued[k].op \in ResourceOps =>
              /\ Len(Issued) = 1
              /\ idx \in 1..ResourceCount
              /\ Len(results) = idx - 1
              /\ LET names == [j \in 1..Len(Lookups) |-> Lookups[j].arg]
                 IN IF Issued[k].op = "findApplicationByName"
                    THEN /\ Issued[k].arg = Resources[idx].name
                         /\ names = [j \in 1..(idx - 1) |-> Resources[j].name]
                    ELSE names = [j \in 1..idx |-> Resources[j].name]
    ]_vars

\* the second resource's sequence is under way after the first one's ended,
\* with a failure
C15_Witness ==
  /\ idx = 2
  /\ pc \in ResourceOps \ {"findApplicationByName"}
  /\ Len(results) = 1
  /\ results[1].action = "failed"
  /\ Cardinality(Ops({"findApplicationByName"})) = 2

(***************************************************************************)
(* C16-C19: parseEnvFile called directly.  The lines of a content are told *)
(* apart here by their text alone.                                         *)
(***************************************************************************)
Quotes == {"\"", "'"}

\* a line without the white space around it
Body(line) ==
  LET ink == {i \in 1..Len(line) : line[i] \notin WhiteSpace}
  IN IF ink = {} THEN <<>>
     ELSE SubSeq(line, CHOOSE i \in ink : \A j \in ink : i <= j,
                       CHOOSE i \in ink : \A j \in ink : j <= i)

Blank(line) == Body(line) = <<>>
Comment(line) == ~Blank(line) /\ Body(line)[1] = "#"

\* where the first = of a body is, 0 when it has none
EqualsIn(body) ==
  LET at == {i \in 1..Len(body) : body[i] = "="}
  IN IF at = {} THEN 0 ELSE CHOOSE i \in at : \A j \in at : i <= j

\* where the first = of a line's body is, 0 when it has none
EqualsAt(line) == EqualsIn(Body(line))

KeyOfLine(line) ==
  LET body == Body(line)
  IN SubSeq(body, 1, EqualsIn(body) - 1)
ValueOfLine(line) ==
  LET body == Body(line)
  IN SubSeq(body, EqualsIn(body) + 1, Len(body))

\* the line has the shape KEY=VALUE, KEY matching [A-Za-z_][A-Za-z0-9_]* and
\* VALUE staying on the line
Shaped(line) ==
  LET body == Body(line)
      at == EqualsIn(body)
      key == SubSeq(body, 1, at - 1)
      value == SubSeq(body, at + 1, Len(body))
  IN /\ at > 1
     /\ key[1] \in Letters
     /\ \A i \in 1..Len(key) : key[i] \in Letters \cup Digits
     /\ \A i \in 1..Len(value) : value[i] \notin LineTerminators

\* the value starts with a quote character and does not end with the same one
Mismatched(value) ==
  /\ value # <<>>
  /\ value[1] \in Quotes
  /\ value[Len(value)] # value[1]

WellFormed(line) ==
  LET body == Body(line)
  IN /\ body # <<>>
     /\ body[1] # "#"
     /\ Shaped(line)
     /\ ~Mismatched(ValueOfLine(line))

Parsed == input.function = "parseEnvFile" /\ output.returned

\* a sequence of entries with distinct keys
IsMapping(entries) ==
  /\ DOMAIN entries = 1..Len(entries)
  /\ \A i \in 1..Len(entries) : DOMAIN entries[i] = {"key", "value"}
  /\ \A i, j \in 1..Len(entries) : entries[i].key = entries[j].key => i = j

\* C16: parseEnvFile returns a mapping for every content; every key of the mapping it
\* returns is the key of a line that is not blank, not a comment and has the
\* shape KEY=VALUE, and the key of every well-formed line is a key of the
\* mapping.
C16_WellFormedLinesContribute ==
  /\ (input.function = "parseEnvFile" /\ ~output.returned) =>
       IsMapping(parseEnvFile(input.value))
  /\ Parsed => IsMapping(output.value)
  /\ Parsed =>
       LET lines == {input.lines[i] : i \in 1..Len(input.lines)}
       IN /\ KeysOf(output.value) \subseteq
               {KeyOfLine(l) : l \in {m \in lines : /\ ~Blank(m) /\ ~Comment(m)
                                                    /\ Shaped(m)}}
          /\ {KeyOfLine(l) : l \in {m \in lines : WellFormed(m)}}
               \subseteq KeysOf(output.value)

\* the same for contents in which no line assigns ProtoKey
C16_ExceptProtoKey ==
  (\A i \in 1..Len(input.lines) :
      Shaped(input.lines[i]) => KeyOfLine(input.lines[i]) # ProtoKey)
    => C16_WellFormedLinesContribute

\* the value is wrapped in a matching pair of quote characters
Wrapped(value) ==
  /\ Len(value) >= 2
  /\ value[1] \in Quotes
  /\ value[Len(value)] = value[1]

\* the index of the last well-formed line that assigns key, 0 when none does
LastAssigning(key) ==
  LET at == {i \in 1..Len(input.lines) :
               /\ WellFormed(input.lines[i])
               /\ KeyOfLine(input.lines[i]) = key}
  IN IF at = {} THEN 0 ELSE CHOOSE i \in at : \A j \in at : j <= i

\* C17: the value stored for a key is the value of the last accepted line
\* that assigns it, without its first and last character when that value is
\* wrapped in a matching pair of double or of single quotes, and unchanged
\* otherwise.
C17_StripsOneLayerOfQuotes ==
  Parsed =>
    \A e \in 1..Len(output.value) :
      LET last == LastAssigning(output.value[e].key)
          value == ValueOfLine(input.lines[last])
      IN /\ last > 0
         /\ output.value[e].value =
              IF Wrapped(value) THEN SubSeq(value, 2, Len(value) - 1) ELSE value

\* the same for contents in which no value is a single quote character
C17_ExceptLoneQuote ==
  (\A i \in 1..Len(input.lines) :
      ~(Len(ValueOfLine(input.lines[i])) = 1 /\ ValueOfLine(input.lines[i])[1] \in Quotes))
    => C17_StripsOneLayerOfQuotes

\* the lines whose value starts with a quote character and does not end with
\* the same one
MismatchedLines ==
  {i \in 1..Len(input.lines) :
     /\ ~Blank(input.lines[i])
     /\ ~Comment(input.lines[i])
     /\ Shaped(input.lines[i])
     /\ Mismatched(ValueOfLine(input.lines[i]))}

\* C18: a line whose value starts with a quote character and does not end
\* with the same one contributes nothing: its key is a key of the mapping
\* only when a well-formed line assigns it, and the mapping is the one the
\* content without such lines gives; a mapping is returned all the same.
C18_MismatchedQuoteSkipsLine ==
  Parsed =>
    /\ IsMapping(output.value)
    /\ \A i \in MismatchedLines :
         KeyOfLine(input.lines[i]) \in KeysOf(output.value) =>
           LastAssigning(KeyOfLine(input.lines[i])) > 0
    /\ MismatchedLines # {} =>
         output.value =
           parseEnvFile(JoinLines(Pick(input.lines,
                                       (1..Len(input.lines)) \ MismatchedLines),
                                  <<"\n">>))

\* a content with such a line has been parsed, its key is not in the mapping
\* and the key of another line is
C18_Witness ==
  /\ Parsed
  /\ \E i \in MismatchedLines : KeyOfLine(input.lines[i]) \notin KeysOf(output.value)
  /\ output.value # <<>>

\* no value of the mapping holds a quote character or a newline
NoQuotesNoNewlines(mapping) ==
  \A e \in 1..Len(mapping) : \A i \in 1..Len(mapping[e].value) :
    mapping[e].value[i] \notin Quotes \cup {"\n"}

\* no value of the mapping ends with white space
NoTrailingWhiteSpace(mapping) ==
  \A e \in 1..Len(mapping) :
    mapping[e].value # <<>> =>
      mapping[e].value[Len(mapping[e].value)] \notin WhiteSpace

\* a mapping parseEnvFile returned was written back and parsed again
ParsedAgain == Parsed /\ input.rewritten

\* C19 as stated: a mapping parseEnvFile returned whose values hold no quote
\* character and no newline, written back as KEY=value lines and parsed
\* again, gives the same mapping.
C19_RoundTrip ==
  (ParsedAgain /\ NoQuotesNoNewlines(input.mapping)) =>
    output.value = input.mapping

\* C19 amended: the same for the mappings none of whose values ends with
\* white space either.
C19_RoundTripWithoutTrailingWhiteSpace ==
  (/\ ParsedAgain
   /\ NoQuotesNoNewlines(input.mapping)
   /\ NoTrailingWhiteSpace(input.mapping)) =>
    output.value = input.mapping

\* a mapping of two keys, one value starting with a space and one holding an
\* = sign, has gone round
C19_Witness ==
  /\ ParsedAgain
  /\ NoQuotesNoNewlines(input.mapping)
  /\ NoTrailingWhiteSpace(input.mapping)
  /\ Len(input.mapping) = 2
  /\ \E e \in 1..2 : input.mapping[e].value = <<" ", "1">>
  /\ \E e \in 1..2 : input.mapping[e].value = <<"1", "=", "2">>
  /\ output.value = input.mapping

(***************************************************************************)
(* C20: envVarsToCoolifyFormat called directly.                            *)
(***************************************************************************)
Converted == input.function = "envVarsToCoolifyFormat" /\ output.returned

\* C20: the sequence envVarsToCoolifyFormat returns has one entry per key of
\* the mapping, in the mapping's order, with that key and its value,
\* is_preview false, is_literal true, is_shown_once false, and is_multiline
\* true exactly when the value holds a newline; it is empty for the empty
\* mapping.
C20_WireEntries ==
  Converted =>
    /\ Len(output.value) = Len(input.mapping)
    /\ input.mapping = <<>> => output.value = <<>>
    /\ \A e \in 1..Len(input.mapping) :
         /\ output.value[e].key = input.mapping[e].key
         /\ output.value[e].value = input.mapping[e].value
         /\ ~output.value[e].is_preview
         /\ output.value[e].is_literal
         /\ ~output.value[e].is_shown_once
         /\ output.value[e].is_multiline <=>
              "\n" \in {input.mapping[e].value[i] :
                          i \in 1..Len(input.mapping[e].value)}

\* a mapping of two keys was converted, one value holding a newline and one
\* holding none
C20_Witness ==
  /\ Converted
  /\ Len(output.value) = 2
  /\ output.value[1].is_multiline
  /\ ~output.value[2].is_multiline
  /\ output.value[2].value # <<>>

\* C21: a well-formed line whose value does not start with a quote
\* character, and which is the last to assign its key, stores under the text
\* before its first = everything after that =, further = signs included.
C21_SplitsAtFirstEquals ==
  Parsed =>
    \A i \in 1..Len(input.lines) :
      LET line == Body(input.lines[i])
          at == {j \in 1..Len(line) : line[j] = "="}
          first == CHOOSE j \in at : \A k \in at : j <= k
          key == SubSeq(line, 1, first - 1)
          value == SubSeq(line, first + 1, Len(line))
      IN (/\ WellFormed(input.lines[i])
          /\ LastAssigning(KeyOfLine(input.lines[i])) = i
          /\ key # ProtoKey
          /\ ~(value # <<>> /\ value[1] \in Quotes)) =>
           \E e \in 1..Len(output.value) :
             /\ output.value[e].key = key
             /\ output.value[e].value = value

\* a line with two = signs has been parsed: the second one is in the value
C21_Witness ==
  /\ Parsed
  /\ \E i \in 1..Len(input.lines) :
       input.lines[i] = <<"_", "k", "1", "=", "1", "=", "2">>
  /\ \E e \in 1..Len(output.value) :
       /\ output.value[e].key = <<"_", "k", "1">>
       /\ output.value[e].value = <<"1", "=", "2">>

(***************************************************************************)
(* C22: totalCreated and totalUpdated.                                     *)
(***************************************************************************)
\* 1 when the step pushes a result entry with this action, else 0
Pushed(action) ==
  IF /\ Len(results') = Len(results) + 1
     /\ results'[Len(results')].action = action
  THEN 1 ELSE 0

\* C22: a step of the per-resource phase adds one to totalCreated exactly
\* when it pushes a created entry and one to totalUpdated exactly when it
\* pushes an updated entry; no step of the pruning pass or of the deployment
\* wait changes either, and the values returned are the ones the per-resource
\* phase left, entries rewritten to failed notwithstanding.
C22_CreatedUpdatedFixedByLoop ==
  [][ /\ pc \in ResourceOps =>
           /\ totalCreated' = totalCreated + Pushed("created")
           /\ totalUpdated' = totalUpdated + Pushed("updated")
      /\ pc \in PruneOps \cup WaitOps =>
           /\ totalCreated' = totalCreated
           /\ totalUpdated' = totalUpdated
      /\ pc' = "returned" =>
           /\ ret'.totalCreated = totalCreated
           /\ ret'.totalUpdated = totalUpdated
    ]_vars

\* a run returned totalCreated = 1 and totalUpdated = 1 although both entries
\* were rewritten to failed
C22_Witness ==
  /\ NormalReturn
  /\ ret.totalCreated = 1
  /\ ret.totalUpdated = 1
  /\ \A i \in 1..Len(ret.resources) :
       ret.resources[i].action \notin {"created", "updated"}

(***************************************************************************)
(* C23: environment-variable reconciliation of an existing application.    *)
(***************************************************************************)
\* C23: when the environment-variable reconciliation of an existing
\* application has completed, the calls of the resource hold one listing; one
\* delete call for each entry the listing returned whose key is not desired,
\* and no other delete call; every delete after the listing and before the
\* batch update; one batch update when variables are desired and none when
\* none is.
C23_ListDeleteThenUpdate ==
  (pc = "deployApplication" /\ existing) =>
    LET seq == LastSequence
        at(op) == {p \in 1..Len(seq) : seq[p].op = op}
        lists == at("listEnvironmentVariables")
        deletes == at("deleteEnvironmentVariable")
        updates == at("updateEnvironmentVariables")
        current == seq[CHOOSE p \in lists : TRUE].returned
        stale == {i \in 1..Len(current) : current[i].key \notin KeysOf(envVars)}
    IN /\ Cardinality(lists) = 1
       /\ Cardinality(deletes) = Cardinality(stale)
       /\ {seq[p].arg : p \in deletes} = {current[i].uuid : i \in stale}
       /\ \A p \in deletes : \A l \in lists : l < p
       /\ \A p \in deletes : \A u \in updates : p < u
       /\ \A u \in updates : seq[u].arg = appUuid /\ \A l \in lists : l < u
       /\ Cardinality(updates) = IF envVars # <<>> THEN 1 ELSE 0

\* the listing returned a desired and an undesired entry; the undesired one
\* was deleted and the batch update followed
C23_Witness ==
  /\ pc = "deployApplication"
  /\ existing
  /\ \E p \in 1..Len(LastSequence) :
       /\ LastSequence[p].op = "listEnvironmentVariables"
       /\ \E i, j \in 1..Len(LastSequence[p].returned) :
            /\ LastSequence[p].returned[i].key \in KeysOf(envVars)
            /\ LastSequence[p].returned[j].key \notin KeysOf(envVars)
  /\ \E p \in 1..Len(LastSequence) : LastSequence[p].op = "deleteEnvironmentVariable"
  /\ LastSequence[Len(LastSequence)].op = "updateEnvironmentVariables"

(***************************************************************************)
(* C24: which entries are waited on.                                       *)
(***************************************************************************)
\* the entries of res that carry a deployment identifier
WithDeployment(res) == {i \in 1..Len(res) : res[i].deploymentUuid # NONE}

\* the deployment wait has just been started
WaitStarted ==
  pc = "waitForDeployment" /\ \A k \in 1..Len(settled) : settled[k] = "pending"

\* C24: once the pruning pass has returned, the wait calls issued are one per
\* entry that carries a deployment identifier, in the order of the entries
\* and with that identifier; failed and pruned entries carry none; no wait
\* call is issued when no entry carries one; and a manifest resource's entry
\* that was not failed and carries none is returned created or updated.
C24_WaitsExactlyEntriesWithId ==
  /\ (WaitStarted \/ NormalReturn) =>
       LET res == IF NormalReturn THEN ret.resources ELSE results
           waits == Pick(calls, Ops(WaitOps))
           carrying == Pick(res, WithDeployment(res))
       IN /\ Len(waits) = Len(carrying)
          /\ \A k \in 1..Len(waits) : waits[k].arg = carrying[k].deploymentUuid
          /\ WithDeployment(res) = {} => Ops(WaitOps) = {}
          /\ \A i \in 1..Len(res) :
               (res[i].action = "pruned" \/ i \in FailedInLoop) =>
                 i \notin WithDeployment(res)
          /\ \A i \in 1..ResourceCount :
               (i \notin WithDeployment(res) /\ i \notin FailedInLoop) =>
                 res[i].action \in {"created", "updated"}
  /\ (pc = "returned" /\ WithDeployment(ret.resources) = {}) => Ops(WaitOps) = {}

\* a run returned after waiting for one of two resources: the other one's
\* trigger returned no identifier, and an application was pruned
C24_Witness ==
  /\ NormalReturn
  /\ ResourceCount = 2
  /\ ret.resources[1].deploymentUuid = NONE
  /\ ret.resources[1].action = "created"
  /\ ret.resources[2].deploymentUuid # NONE
  /\ Cardinality(Ops(WaitOps)) = 1
  /\ \E i \in 1..Len(ret.resources) : ret.resources[i].action = "pruned"

(***************************************************************************)
(* C25: what the deployment wait leaves alone.                             *)
(***************************************************************************)
\* the index of the entry of results that produced the wait k
EntryOfWait(k) ==
  CHOOSE i \in WithDeployment(results) :
    Cardinality({j \in WithDeployment(results) : j <= i}) = k

\* the entries whose own wait rejected
EntriesOfRejectedWaits == {EntryOfWait(k) : k \in Rejected}

\* C25: no step of the deployment wait changes the result list before the
\* last one, and the list returned has the entries the wait started with,
\* each unchanged unless its own wait rejected: an entry whose wait succeeded
\* keeps action, uuid and deployment identifier and gains no error, and pruned
\* entries and entries failed by the loop stay as they were.
C25_WaitRewritesOnlyRejected ==
  [][ pc = "waitForDeployment" =>
        /\ pc' = "waitForDeployment" => results' = results
        /\ pc' = "returned" =>
             /\ Len(ret'.resources) = Len(results)
             /\ \A i \in 1..Len(results) :
                  i \notin EntriesOfRejectedWaits => ret'.resources[i] = results[i]
    ]_vars

\* the deployment identifiers of the entries are pairwise different
DistinctDeploymentIds ==
  \A i, j \in WithDeployment(results) :
    results[i].deploymentUuid = results[j].deploymentUuid => i = j

\* the same for runs whose triggers return pairwise different identifiers
C25_WithDistinctIds ==
  [][ DistinctDeploymentIds => 
        (pc = "waitForDeployment" =>
           /\ pc' = "waitForDeployment" => results' = results
           /\ pc' = "returned" =>
                /\ Len(ret'.resources) = Len(results)
                /\ \A i \in 1..Len(results) :
                     i \notin EntriesOfRejectedWaits =>
                       ret'.resources[i] = results[i])
    ]_vars

(***************************************************************************)
(* C26: no call is repeated.                                               *)
(***************************************************************************)
\* the operations that take a manifest resource or a remote application
OncePerTarget ==
  {"findApplicationByName", "createDockerImageApplication",
   "updateApplication", "deployApplication", "deleteApplication"}

\* C26: a step never issues a lookup, create, update, deploy trigger or
\* delete-application call that was issued before for the same resource or
\* application, whether the earlier call returned or threw; the lookups,
\* creates, updates and triggers issued are for the resource the loop is at;
\* and wait calls are issued in one step only, at most one per result entry
\* that carries a deployment identifier.
C26_NothingRetried ==
  [][ \A k \in 1..Len(Issued) :
        /\ Issued[k].op \in OncePerTarget =>
             \A p \in 1..Len(calls) :
               ~(calls[p].op = Issued[k].op /\ calls[p].arg = Issued[k].arg)
        /\ Issued[k].op \in {"findApplicationByName", "createDockerImageApplication"} =>
             Issued[k].arg = Resources[idx].name
        /\ Issued[k].op \in {"updateApplication", "deployApplication"} =>
             /\ Issued[k].arg = appUuid
             /\ FindApp(Resources[idx].name, TargetEnvironment.id)[1].uuid = appUuid
        /\ Issued[k].op \in WaitOps =>
             /\ Ops(WaitOps) = {}
             /\ Cardinality({j \in 1..Len(Issued) : Issued[j].op \in WaitOps})
                  <= Cardinality(WithDeployment(results'))
    ]_vars

\* a run returned after a call of the loop threw, an application was deleted
\* and a deployment was waited for
C26_Witness ==
  /\ NormalReturn
  /\ ThrownInLoop # {}
  /\ Ops({"deleteApplication"}) # {}
  /\ Ops(WaitOps) # {}

(***************************************************************************)
(* C27: the trigger comes last.                                            *)
(***************************************************************************)
\* C27: in the calls of a resource just finished, a call that threw is the
\* last one, and then the entry is failed and carries no deployment
\* identifier; the deploy trigger, when issued, is the last call and follows
\* a create or update call, the listing for an existing application and the
\* batch update when variables are desired, none of which threw.
C27_TriggerOnlyAfterSuccess ==
  JustFinished =>
    LET seq == LastSequence
        n == Len(seq)
        before(ops) == \E q \in 1..(n - 1) : seq[q].op \in ops
    IN /\ \A p \in 1..n :
            seq[p].threw =>
              /\ p = n
              /\ results[idx - 1].action = "failed"
              /\ results[idx - 1].deploymentUuid = NONE
       /\ \A p \in 1..n :
            seq[p].op = "deployApplication" =>
              /\ p = n
              /\ \A q \in 1..(n - 1) : ~seq[q].threw
              /\ before({"createDockerImageApplication", "updateApplication"})
              /\ existing => before({"listEnvironmentVariables"})
              /\ DesiredEnvVars(idx - 1) # <<>> =>
                   before({"updateEnvironmentVariables"})
       /\ seq[n].op # "deployApplication" =>
            /\ seq[n].threw
            /\ results[idx - 1].deploymentUuid = NONE

\* the batch update of an application already updated threw: the resource is
\* finished without a trigger
C27_Witness ==
  /\ JustFinished
  /\ existing
  /\ LastSequence[Len(LastSequence)].op = "updateEnvironmentVariables"
  /\ LastSequence[Len(LastSequence)].threw
  /\ results[idx - 1].action = "failed"

(***************************************************************************)
(* C28: the action unchanged.                                              *)
(***************************************************************************)
\* C28: every entry of a returned result has the action created, updated,
\* failed or pruned; and the calls of a finished resource whose lookup found
\* an application go on with the update call, the entry being updated, with
\* the deploy trigger issued, unless a call threw (existing is left over from
\* the resource before when the lookup itself threw).
C28_NeverUnchanged ==
  /\ pc = "returned" =>
       \A i \in 1..Len(ret.resources) :
         ret.resources[i].action \in {"created", "updated", "failed", "pruned"}
  /\ (JustFinished /\ existing) =>
       LET seq == LastSequence
       IN \/ seq[1].threw
          \/ /\ Len(seq) >= 2
             /\ seq[2].op = "updateApplication"
             /\ results[idx - 1].action \in {"updated", "failed"}
             /\ results[idx - 1].action = "updated" =>
                  seq[Len(seq)].op = "deployApplication"

\* a run over two existing applications returned both updated
C28_Witness ==
  /\ NormalReturn
  /\ ResourceCount = 2
  /\ \A i \in 1..2 : /\ ret.resources[i].action = "updated"
                     /\ ret.resources[i].uuid = ExistingApp(i).uuid

RewrittenBy(outcomes) ==
  {FindByDeployment(results, deployments[k].uuid) :
     k \in {j \in 1..Len(outcomes) : outcomes[j] = "rejected"}} \ {0}

\* the result as a function of the entries the wait started with and of the
\* outcome of every wait, the order of settling not among its arguments
ResultOf(outcomes) ==
  LET rejected == Cardinality({k \in 1..Len(outcomes) : outcomes[k] = "rejected"})
  IN [success |-> (totalFailed + rejected = 0),
      resources |-> [i \in 1..Len(results) |->
                       IF i \in RewrittenBy(outcomes)
                       THEN [results[i] EXCEPT
                               !.action = "failed",
                               !.error = WaitError(results[i].deploymentUuid)]
                       ELSE results[i]],
      totalCreated |-> totalCreated,
      totalUpdated |-> totalUpdated,
      totalFailed |-> totalFailed + rejected,
      totalPruned |-> totalPruned]

\* C30: while the waits are settling, a step settles one pending wait and
\* touches neither the other outcomes nor the entries nor the counters, so
\* every order of settling leads to the same vector of outcomes; reconcile
\* returns only when every wait has its outcome, and what it returns is
\* determined by the entries and counters the wait started with and by that
\* vector alone.
C30_IndependentOfSettleOrder ==
  [][ pc = "waitForDeployment" =>
        /\ pc' = "waitForDeployment" =>
             /\ \E k \in 1..Len(settled) :
                  /\ settled[k] = "pending"
                  /\ settled'[k] # "pending"
                  /\ \A j \in 1..Len(settled) : j # k => settled'[j] = settled[j]
             /\ UNCHANGED <<results, deployments, counterVars, ret>>
        /\ pc' = "returned" =>
             /\ AllSettled
             /\ settled' = settled
             /\ ret' = ResultOf(settled)
    ]_vars

\* reconcile has returned after two waits, one fulfilled and one rejected:
\* both orders of settling end here
C30_Witness ==
  /\ NormalReturn
  /\ Len(settled) = 2
  /\ \E k \in 1..2 : settled[k] = "rejected" /\ settled[3 - k] = "fulfilled"
  /\ ret.totalFailed = 1

(***************************************************************************)
(* C31: which entry the handler of a rejected wait writes.                 *)
(***************************************************************************)
\* reconciler.ts 240-244: the entry the handler of wait k assigns to, 0 when
\* results.find returns undefined
WrittenBy(k) == FindByDeployment(results, deployments[k].uuid)

\* C31: when every wait has settled and the outcomes are about to be folded
\* in, the handler of each rejected wait writes the entry that produced that
\* wait, and the handlers of two different rejected waits write different
\* entries.
C31_HandlersWriteTheirOwnEntry ==
  (pc = "waitForDeployment" /\ AllSettled) =>
    /\ \A k \in Rejected : WrittenBy(k) = EntryOfWait(k)
    /\ \A k, l \in Rejected : k # l => WrittenBy(k) # WrittenBy(l)

\* the same for runs whose triggers return pairwise different identifiers
C31_WithDistinctIds ==
  (pc = "waitForDeployment" /\ AllSettled /\ DistinctDeploymentIds) =>
    /\ \A k \in Rejected : WrittenBy(k) = EntryOfWait(k)
    /\ \A k, l \in Rejected : k # l => WrittenBy(k) # WrittenBy(l)

\* two waits rejected whose handlers write the same entry
C31_SameEntryWrittenTwice ==
  /\ pc = "waitForDeployment"
  /\ AllSettled
  /\ \E k, l \in Rejected : k # l /\ WrittenBy(k) = WrittenBy(l)

(***************************************************************************)
(* C32: the entry of a resource that failed in the loop.                   *)
(***************************************************************************)
\* C32: when the loop has just finished a resource, its entry has action
\* failed if and only if the last call of its sequence threw, and the entry is
\* then the resource's name, the action failed and the message of that call's
\* error, with no uuid and no deployment identifier, also when a create or
\* update call of the sequence had succeeded before.
C32_FailedEntryNameActionError ==
  JustFinished =>
    LET seq == LastSequence
        last == seq[Len(seq)]
        entry == results[idx - 1]
    IN /\ entry.action = "failed" <=> last.threw
       /\ last.threw =>
            entry = [name |-> Resources[idx - 1].name, action |-> "failed",
                     uuid |-> NONE, deploymentUuid |-> NONE,
                     error |-> ErrorOf(last.op)]

\* a resource whose application was created remotely and whose deploy trigger
\* threw: the new application exists and the entry is failed
C32_Witness ==
  /\ JustFinished
  /\ Len(LastSequence) >= 3
  /\ LastSequence[2].op = "createDockerImageApplication"
  /\ ~LastSequence[2].threw
  /\ LastSequence[Len(LastSequence)].op = "deployApplication"
  /\ LastSequence[Len(LastSequence)].threw
  /\ \E j \in 1..Len(applications) : applications[j].uuid = LastSequence[2].returned
  /\ results[idx - 1].action = "failed"

(***************************************************************************)
(* C33: totalFailed and the failed entries.                                *)
(***************************************************************************)
\* the entries of the returned list whose action is failed
FailedEntries == {i \in 1..Len(ret.resources) : ret.resources[i].action = "failed"}

\* C33: in every result returned after both preconditions passed, totalFailed
\* is the number of entries of the returned list whose action is failed.
C33_TotalFailedCountsFailedEntries ==
  NormalReturn => ret.totalFailed = Cardinality(FailedEntries)

\* the same for runs whose triggers return pairwise different identifiers
C33_WithDistinctIds ==
  (NormalReturn /\ DistinctDeploymentIds) =>
    ret.totalFailed = Cardinality(FailedEntries)

(***************************************************************************)
(* C34: the three counters and the number of resources.                    *)
(***************************************************************************)
\* C34: in every result returned after both preconditions passed,
\* totalCreated + totalUpdated + totalFailed is the number of manifest
\* resources.
C34_CountersSumToResourceCount ==
  NormalReturn =>
    ret.totalCreated + ret.totalUpdated + ret.totalFailed = ResourceCount

\* C34, amended: in every result returned after both preconditions passed,
\* totalCreated + totalUpdated + totalFailed is the number of manifest
\* resources plus the number of deployment waits that rejected; a resource
\* whose wait rejected is counted as created or updated and as failed, and
\* the resources the loop counted as created, updated or failed are each
\* counted once.
C34_CountersSumWithRejectedWaits ==
  NormalReturn =>
    /\ ret.totalCreated + ret.totalUpdated + ret.totalFailed
         = ResourceCount + Cardinality(Rejected)
    /\ ret.totalCreated + ret.totalUpdated + Cardinality(FailedInLoop)
         = ResourceCount

\* a run of two resources, one failed in the loop and one created whose wait
\* rejected: the counters sum to three
C34_Witness ==
  /\ NormalReturn
  /\ ResourceCount = 2
  /\ Cardinality(FailedInLoop) = 1
  /\ Cardinality(Rejected) = 1
  /\ ret.totalCreated = 1
  /\ ret.totalFailed = 2

(***************************************************************************)
(* C35: convergence of the target environment.                             *)
(***************************************************************************)
\* the remote applications of the target environment, as indices
InTargetEnvironment ==
  {j \in 1..Len(applications) :
     applications[j].environment_id = TargetEnvironment.id}

\* no remote call of the run threw
NoCallThrew == \A p \in 1..Len(calls) : ~calls[p].threw

\* C35: when reconcile has returned after both preconditions passed and no
\* remote call threw, the names of the applications of the target
\* environment are exactly the names of the manifest resources, one
\* application per name, whatever applications the environment held before
\* and whatever the deployment waits answered.
C35_Convergence ==
  (NormalReturn /\ NoCallThrew) =>
    /\ {applications[j].name : j \in InTargetEnvironment} = ManifestNames
    /\ Cardinality(InTargetEnvironment) = ResourceCount

\* a run without a thrown call over two resources, one updated and one
\* created, that deleted an application the manifest does not name
C35_Witness ==
  /\ NormalReturn
  /\ NoCallThrew
  /\ ResourceCount = 2
  /\ ret.totalCreated = 1
  /\ ret.totalUpdated = 1
  /\ ret.totalPruned = 1

(***************************************************************************)
(* C36: every deployment triggered is waited for.                          *)
(***************************************************************************)
\* the deploy triggers of the run that returned an identifier
Triggered ==
  {p \in Ops({"deployApplication"}) : ~calls[p].threw /\ calls[p].returned # NONE}

\* every identifier a trigger returned was passed to a later wait call, as
\* many times as it was returned
AllTriggeredAwaited ==
  \A p \in Triggered :
    LET id == calls[p].returned
    IN Cardinality({q \in Ops({"waitForDeployment"}) :
                      q > p /\ calls[q].arg = id})
         = Cardinality({q \in Triggered : calls[q].returned = id})

\* C36: when the invocation has finished, by returning or by throwing, every
\* deployment identifier a deploy trigger returned has been passed to a wait
\* call, whatever happened to the other resources and to the pruning pass.
C36_EveryDeploymentAwaited ==
  pc \in {"returned", "thrown"} => AllTriggeredAwaited

\* the same for the invocations that return
C36_WhenReconcileReturns ==
  pc = "returned" => AllTriggeredAwaited

\* an invocation that returned after a trigger returned an identifier and
\* another resource failed
C36_ReturnedAfterTrigger ==
  /\ NormalReturn
  /\ Triggered # {}
  /\ FailedInLoop # {}

(***************************************************************************)
(* C37: a resource whose secret is missing or empty.                       *)
(***************************************************************************)
\* the secrets mapping has no entry, or the empty string, for the secret
\* name of resource i
SecretUnset(i) ==
  LET secretName == Resources[i].envSecretName
  IN \/ secretName \notin DOMAIN options.envSecrets
     \/ options.envSecrets[secretName] = <<>>

\* C37: when the loop has just finished a resource whose secret is missing or
\* empty, no batch update was issued for it; if none of its calls threw, its
\* entry is created or updated, not failed; a new application was created
\* and deployed with no variable call; and for an application found, the
\* calls after the listing are one deletion per variable listed, in the
\* order listed, then the deploy trigger.
C37_UnsetSecretMeansNoVariables ==
  (JustFinished /\ SecretUnset(idx - 1)) =>
    LET seq == LastSequence
        n == Len(seq)
        noThrow == \A k \in 1..n : ~seq[k].threw
    IN /\ \A k \in 1..n : seq[k].op # "updateEnvironmentVariables"
       /\ noThrow => results[idx - 1].action \in {"created", "updated"}
       /\ (noThrow /\ seq[2].op = "createDockerImageApplication") =>
            /\ n = 3
            /\ seq[3].op = "deployApplication"
            /\ results[idx - 1].action = "created"
       /\ (n >= 3 /\ seq[3].op = "listEnvironmentVariables" /\ ~seq[3].threw) =>
            LET listed == seq[3].returned
            IN /\ \A i \in 1..Len(listed) :
                    3 + i <= n =>
                      /\ seq[3 + i].op = "deleteEnvironmentVariable"
                      /\ seq[3 + i].arg = listed[i].uuid
               /\ noThrow =>
                    /\ n = 3 + Len(listed) + 1
                    /\ seq[n].op = "deployApplication"
                    /\ results[idx - 1].action = "updated"

\* an application found holding two variables, for a resource whose secret
\* has no entry: both were deleted and the resource is updated
C37_Witness ==
  /\ JustFinished
  /\ Resources[idx - 1].envSecretName \notin DOMAIN options.envSecrets
  /\ Len(LastSequence) = 6
  /\ LastSequence[3].op = "listEnvironmentVariables"
  /\ LastSequence[4].op = "deleteEnvironmentVariable"
  /\ LastSequence[5].op = "deleteEnvironmentVariable"
  /\ LastSequence[6].op = "deployApplication"
  /\ ~LastSequence[6].threw
  /\ results[idx - 1].action = "updated"

\* a new application created for a resource whose secret is the empty string
C37_CreatedWithEmptySecret ==
  /\ JustFinished
  /\ SecretName \in DOMAIN options.envSecrets
  /\ options.envSecrets[SecretName] = <<>>
  /\ results[idx - 1].action = "created"

====
